---- MODULE Spec2Model ----
(***************************************************************************)
(* A model of simple-nonogram-solver: the worker line solver               *)
(* (src/src/workers/SegmentWorker.ts), the synchronous pattern solver      *)
(* (src/src/NonogramSolver.ts), the worker pool                            *)
(* (src/src/SegmentWorkerPool.ts), the pool-based fixpoint loop            *)
(* (src/unnamed/part_000) and the synchronous solver with an abort signal  *)
(* and its promise wrapper (src/tsup.config.ts, lines 34-237).             *)
(*                                                                         *)
(* Sequences are 1-based here and 0-based in the source: an operator that  *)
(* takes an index takes the source's 0-based index and reads s[i + 1].     *)
(***************************************************************************)
EXTENDS Integers, Sequences, FiniteSets, TLC

VARIABLES
    mode,         \* which program runs: "line" (one line solve), "sync" or "pool" (a whole
                  \* solve), "driver" (a pool driven by a caller), "signal" or "async"
                  \* (the solver with an abort signal, its promise wrapper)
    lineHints,    \* line solve: the hints of the payload
    lineSegment,  \* line solve: the segment of the payload
    workerOut,    \* line solve: what the worker's resolveSequence gave, or NotRun
    syncOut,      \* line solve: what the synchronous resolveSequence gave, or NotRun
    rowsHints,    \* solve: the row hints passed in
    columnsHints, \* solve: the column hints passed in
    maxIterations,\* pool solve: options.maxIterations after the defaults are merged
    parallelism,  \* pool solve: what getAvailableParallelism() reports on the host
    runtime,      \* pool: process.env.RUNTIME of the build that runs, "node" or "browser"
    pc,           \* solve: where the solver's control is
    grid,         \* solve: the grid (a sequence of rows of cells)
    hasChanges,   \* solve: hasChanges (pool) / hasChanged (sync)
    currentIteration, \* pool solve: currentIteration; sync: the count of loop rounds (ghost)
    lineIndex,    \* sync solve: the row (y) or column (x) the loop is at, 0-based
    batch,        \* pool solve: processingSegments, the task ids of the awaited batch;
                  \* driver: the payloads submitted so far
    pool,         \* pool solve: the SegmentWorkerPool, or NoPool before construction
    outcome,      \* solve: the result returned / the error thrown, or Running
    history,      \* ghost: what the run did, for stating the claims
    cancellation  \* signal solve: the AbortSignal, the timeout, its timer and the promise

vars == <<mode, lineHints, lineSegment, workerOut, syncOut, rowsHints, columnsHints,
          maxIterations, parallelism, runtime, pc, grid, hasChanges, currentIteration, lineIndex, batch,
          pool, outcome, history, cancellation>>

---------------------------------------------------------------------------
(* Cells (src/src/types.ts line 1) *)

Unknown == 0
Empty == 1
Filled == 2

Cells == {Unknown, Empty, Filled}

---------------------------------------------------------------------------
(* Bounds of the model *)

\* the longest line given to a single line solve
MaxLineLen == 5
\* the largest hint value in a single line solve
MaxHint == 3
\* the longest side (height, width) of a generated puzzle
MaxSide == 2
\* the largest number of cells (height * width) of a generated puzzle
MaxCells == 4
\* the largest worker maximum (available parallelism) of a pool
MaxWorkers == 2
\* the largest explicit maxIterations option
MaxIterBudget == 3
\* the most tasks a caller submits to a pool it drives directly (twice MaxWorkers)
MaxTasks == 4
\* the most terminate() calls a caller makes on a pool it drives directly
MaxTerminates == 2
\* the same two limits for the caller of SpecPoolFair, where liveness is checked
MaxFairTasks == 3
MaxFairTerminates == 1

---------------------------------------------------------------------------
(* JavaScript array helpers *)

Max(a, b) == IF a >= b THEN a ELSE b
Min(a, b) == IF a <= b THEN a ELSE b

RECURSIVE SumSeq(_)
\* Array.prototype.reduce((sum, x) => sum + x, 0)
SumSeq(s) == IF Len(s) = 0 THEN 0 ELSE Head(s) + SumSeq(Tail(s))

\* arr[i] === v with a 0-based index: false outside the array (arr[i] is undefined there)
CellIs(s, i, v) == i >= 0 /\ i < Len(s) /\ s[i + 1] = v

\* arr.slice(from, to) with 0-based, clamped bounds
Slice(s, from, to) ==
    LET a == Min(Max(from, 0), Len(s))
        b == Min(Max(to, 0), Len(s))
    IN  IF a >= b THEN <<>> ELSE [k \in 1..(b - a) |-> s[a + k]]

\* new Array(n).fill(v)
Fill(n, v) == [k \in 1..n |-> v]

\* [...arr] with arr[position] = value (0-based)
SetAt(s, position, value) == [s EXCEPT ![position + 1] = value]

CountOf(s, v) == Cardinality({k \in 1..Len(s) : s[k] = v})

---------------------------------------------------------------------------
(* The worker's line solver: src/src/workers/SegmentWorker.ts *)

DigitChars == <<"0", "1", "2", "3", "4", "5", "6", "7", "8", "9">>

RECURSIVE NumberToString(_)
\* String(n) of a non-negative integer, as a sequence of characters
NumberToString(n) ==
    IF n < 10 THEN <<DigitChars[n + 1]>>
    ELSE NumberToString(n \div 10) \o <<DigitChars[(n % 10) + 1]>>

RECURSIVE JoinComma(_)
\* arr.join(","), as a sequence of characters
JoinComma(s) ==
    IF Len(s) = 0 THEN <<>>
    ELSE IF Len(s) = 1 THEN NumberToString(s[1])
    ELSE NumberToString(s[1]) \o <<",">> \o JoinComma(Tail(s))

\* the mutant of getCacheKey: the start index is left out of the key
getCacheKeyNoStart(hints, segment, startIndex) ==
    JoinComma(hints) \o <<"-">> \o JoinComma(segment)

\* `${hints.join(",")}-${segment.join(",")}-${startIndex}`
getCacheKey(hints, segment, startIndex) ==
    JoinComma(hints) \o <<"-">> \o JoinComma(segment) \o <<"-">> \o NumberToString(startIndex)

\* new Map(): the memoization cache, a function from keys to booleans
EmptyCache == [k \in {} |-> FALSE]

\* memoCache.set(key, value)
CacheSet(cache, key, value) ==
    [k \in (DOMAIN cache) \cup {key} |-> IF k = key THEN value ELSE cache[k]]

\* the mutant of canPlaceBlock: the check of the cell after the block is lost
canPlaceBlockNoAfter(segment, start, length) ==
    /\ ~(start + length > Len(segment))
    /\ ~(start > 0 /\ CellIs(segment, start - 1, Filled))
    /\ \A i \in 0..(length - 1) : ~CellIs(segment, start + i, Empty)

canPlaceBlock(segment, start, length) ==
    /\ ~(start + length > Len(segment))
    /\ ~(start > 0 /\ CellIs(segment, start - 1, Filled))
    /\ ~(start + length < Len(segment) /\ CellIs(segment, start + length, Filled))
    /\ \A i \in 0..(length - 1) : ~CellIs(segment, start + i, Empty)

\* the mutant of getMinSpaceNeeded: a gap is counted after the last block too
getMinSpaceNeededGapEach(hints) == SumSeq(hints) + Len(hints)

getMinSpaceNeeded(hints) == SumSeq(hints) + Max(0, Len(hints) - 1)

RECURSIVE canPlaceHints(_, _, _, _)
RECURSIVE scanStarts(_, _, _, _, _)

RECURSIVE scanStartsNoBreak(_, _, _, _, _)
\* the mutant of scanStarts: the scan goes on past a Filled cell
scanStartsNoBreak(hints, segment, i, maxStart, cache) ==
    IF i > maxStart THEN [value |-> FALSE, cache |-> cache]
    ELSE IF canPlaceBlock(segment, i, Head(hints))
    THEN LET sub == canPlaceHints(Tail(hints), segment, i + Head(hints) + 1, cache)
         IN  IF sub.value THEN [value |-> TRUE, cache |-> sub.cache]
             ELSE scanStartsNoBreak(hints, segment, i + 1, maxStart, sub.cache)
    ELSE scanStartsNoBreak(hints, segment, i + 1, maxStart, cache)

RECURSIVE scanStartsBreakAhead(_, _, _, _, _)
\* the mutant of scanStarts: the cell tested for Filled is the one after position i
scanStartsBreakAhead(hints, segment, i, maxStart, cache) ==
    IF i > maxStart THEN [value |-> FALSE, cache |-> cache]
    ELSE IF canPlaceBlock(segment, i, Head(hints))
    THEN LET sub == canPlaceHints(Tail(hints), segment, i + Head(hints) + 1, cache)
         IN  IF sub.value THEN [value |-> TRUE, cache |-> sub.cache]
             ELSE IF CellIs(segment, i + 1, Filled) THEN [value |-> FALSE, cache |-> sub.cache]
             ELSE scanStartsBreakAhead(hints, segment, i + 1, maxStart, sub.cache)
    ELSE IF CellIs(segment, i + 1, Filled) THEN [value |-> FALSE, cache |-> cache]
    ELSE scanStartsBreakAhead(hints, segment, i + 1, maxStart, cache)

RECURSIVE scanStartsBreakFirst(_, _, _, _, _)
\* the mutant of scanStarts: the test for a Filled cell comes before the block is tried
scanStartsBreakFirst(hints, segment, i, maxStart, cache) ==
    IF i > maxStart THEN [value |-> FALSE, cache |-> cache]
    ELSE IF CellIs(segment, i, Filled) THEN [value |-> FALSE, cache |-> cache]
    ELSE IF canPlaceBlock(segment, i, Head(hints))
    THEN LET sub == canPlaceHints(Tail(hints), segment, i + Head(hints) + 1, cache)
         IN  IF sub.value THEN [value |-> TRUE, cache |-> sub.cache]
             ELSE scanStartsBreakFirst(hints, segment, i + 1, maxStart, sub.cache)
    ELSE scanStartsBreakFirst(hints, segment, i + 1, maxStart, cache)

\* the for loop of canPlaceHints from position i on; gives [value, cache]
scanStarts(hints, segment, i, maxStart, cache) ==
    IF i > maxStart THEN [value |-> FALSE, cache |-> cache]
    ELSE IF canPlaceBlock(segment, i, Head(hints))
    THEN LET sub == canPlaceHints(Tail(hints), segment, i + Head(hints) + 1, cache)
         IN  IF sub.value THEN [value |-> TRUE, cache |-> sub.cache]
             ELSE IF CellIs(segment, i, Filled) THEN [value |-> FALSE, cache |-> sub.cache]
             ELSE scanStarts(hints, segment, i + 1, maxStart, sub.cache)
    ELSE IF CellIs(segment, i, Filled) THEN [value |-> FALSE, cache |-> cache]
    ELSE scanStarts(hints, segment, i + 1, maxStart, cache)

\* canPlaceHints with the memoization cache threaded through; gives [value, cache]
canPlaceHints(hints, segment, startIndex, cache) ==
    LET cacheKey == getCacheKey(hints, segment, startIndex)
    IN  IF cacheKey \in DOMAIN cache
        THEN [value |-> cache[cacheKey], cache |-> cache]
        ELSE IF Len(hints) = 0
        THEN LET valid == ~(\E k \in 1..Len(segment) : k > startIndex /\ segment[k] = Filled)
             IN  [value |-> valid, cache |-> CacheSet(cache, cacheKey, valid)]
        ELSE LET maxStart == Len(segment) - getMinSpaceNeeded(hints)
                 r == scanStarts(hints, segment, startIndex, maxStart, cache)
             IN  [value |-> r.value, cache |-> CacheSet(r.cache, cacheKey, r.value)]

\* checkMustBe; gives [value, cache]
checkMustBe(hints, segment, position, value, cache) ==
    canPlaceHints(hints, SetAt(segment, position, value), 0, cache)

RECURSIVE probeCells(_, _, _, _, _)
\* the for loop of resolveSequence from cell i on; gives [result, cache]
probeCells(hints, segment, i, result, cache) ==
    IF i >= Len(segment) THEN [result |-> result, cache |-> cache]
    ELSE IF ~CellIs(segment, i, Unknown) THEN probeCells(hints, segment, i + 1, result, cache)
    ELSE LET mustBeFilled == checkMustBe(hints, segment, i, Filled, cache)
             mustBeEmpty == checkMustBe(hints, segment, i, Empty, mustBeFilled.cache)
             next == IF mustBeFilled.value /\ ~mustBeEmpty.value THEN SetAt(result, i, Filled)
                     ELSE IF ~mustBeFilled.value /\ mustBeEmpty.value THEN SetAt(result, i, Empty)
                     ELSE result
         IN  probeCells(hints, segment, i + 1, next, mustBeEmpty.cache)

\* the mutant of resolveSequence: the result starts as a blank line, not as a copy
\* of the segment
resolveSequenceBlankResult(hints, segment, cache) ==
    LET totalFilled == SumSeq(hints)
        minSpace == getMinSpaceNeeded(hints)
        existingFilled == CountOf(segment, Filled)
    IN  IF minSpace > Len(segment) \/ existingFilled > totalFilled
        THEN [threw |-> TRUE, result |-> <<>>, cache |-> cache, searched |-> FALSE]
        ELSE LET possible == canPlaceHints(hints, segment, 0, EmptyCache)
             IN  IF ~possible.value
                 THEN [threw |-> TRUE, result |-> <<>>, cache |-> possible.cache, searched |-> TRUE]
                 ELSE LET r == probeCells(hints, segment, 0, Fill(Len(segment), Unknown),
                                          possible.cache)
                      IN  [threw |-> FALSE, result |-> r.result, cache |-> r.cache,
                           searched |-> TRUE]

\* the mutant of resolveSequence: memoCache.clear() is lost
resolveSequenceNoClear(hints, segment, cache) ==
    LET totalFilled == SumSeq(hints)
        minSpace == getMinSpaceNeeded(hints)
        existingFilled == CountOf(segment, Filled)
    IN  IF minSpace > Len(segment) \/ existingFilled > totalFilled
        THEN [threw |-> TRUE, result |-> <<>>, cache |-> cache, searched |-> FALSE]
        ELSE LET possible == canPlaceHints(hints, segment, 0, cache)
             IN  IF ~possible.value
                 THEN [threw |-> TRUE, result |-> <<>>, cache |-> possible.cache, searched |-> TRUE]
                 ELSE LET r == probeCells(hints, segment, 0, segment, possible.cache)
                      IN  [threw |-> FALSE, result |-> r.result, cache |-> r.cache,
                           searched |-> TRUE]

\* the mutant of resolveSequence: memoCache.clear() comes before the quick validation
resolveSequenceClearFirst(hints, segment, cache) ==
    LET totalFilled == SumSeq(hints)
        minSpace == getMinSpaceNeeded(hints)
        existingFilled == CountOf(segment, Filled)
    IN  IF minSpace > Len(segment) \/ existingFilled > totalFilled
        THEN [threw |-> TRUE, result |-> <<>>, cache |-> EmptyCache, searched |-> FALSE]
        ELSE LET possible == canPlaceHints(hints, segment, 0, EmptyCache)
             IN  IF ~possible.value
                 THEN [threw |-> TRUE, result |-> <<>>, cache |-> possible.cache, searched |-> TRUE]
                 ELSE LET r == probeCells(hints, segment, 0, segment, possible.cache)
                      IN  [threw |-> FALSE, result |-> r.result, cache |-> r.cache,
                           searched |-> TRUE]

\* resolveSequence of the worker, run with the worker's cache as it stands;
\* gives [threw, result, cache, searched]: threw for 'Segment not possible to solve',
\* searched when canPlaceHints was called at all
resolveSequence(hints, segment, cache) ==
    LET totalFilled == SumSeq(hints)
        minSpace == getMinSpaceNeeded(hints)
        existingFilled == CountOf(segment, Filled)
    IN  IF minSpace > Len(segment) \/ existingFilled > totalFilled
        THEN [threw |-> TRUE, result |-> <<>>, cache |-> cache, searched |-> FALSE]
        ELSE LET possible == canPlaceHints(hints, segment, 0, EmptyCache)
             IN  IF ~possible.value
                 THEN [threw |-> TRUE, result |-> <<>>, cache |-> possible.cache, searched |-> TRUE]
                 ELSE LET r == probeCells(hints, segment, 0, segment, possible.cache)
                      IN  [threw |-> FALSE, result |-> r.result, cache |-> r.cache,
                           searched |-> TRUE]

---------------------------------------------------------------------------
(* The synchronous line solver: src/src/NonogramSolver.ts *)

RECURSIVE generatePermutations(_, _, _)
RECURSIVE permutationsFrom(_, _, _, _)

RECURSIVE permutationsFromShortLoop(_, _, _, _)
\* the mutant of permutationsFrom: the loop test is < in place of <=
permutationsFromShortLoop(hintValues, remaining, offset, position) ==
    LET currentHint == Head(hintValues)
        remainingHints == Tail(hintValues)
        sumOfRemainingHints == SumSeq(remainingHints)
        last == Len(remaining) - currentHint - sumOfRemainingHints - Len(remainingHints)
    IN  IF position >= last THEN <<>>
        ELSE LET here ==
                   IF \A k \in 1..Len(Slice(remaining, position, position + currentHint)) :
                          Slice(remaining, position, position + currentHint)[k] # Empty
                   THEN LET subs == generatePermutations(remainingHints,
                                        Slice(remaining, position + currentHint + 1, Len(remaining)), 1)
                        IN  [k \in 1..Len(subs) |->
                                Fill(position + offset, Empty) \o Fill(currentHint, Filled) \o subs[k]]
                   ELSE <<>>
             IN  here \o permutationsFromShortLoop(hintValues, remaining, offset, position + 1)

\* the for loop of generatePermutations from `position` on: the patterns it yields, in order
permutationsFrom(hintValues, remaining, offset, position) ==
    LET currentHint == Head(hintValues)
        remainingHints == Tail(hintValues)
        sumOfRemainingHints == SumSeq(remainingHints)
        last == Len(remaining) - currentHint - sumOfRemainingHints - Len(remainingHints)
    IN  IF position > last THEN <<>>
        ELSE LET here ==
                   IF \A k \in 1..Len(Slice(remaining, position, position + currentHint)) :
                          Slice(remaining, position, position + currentHint)[k] # Empty
                   THEN LET subs == generatePermutations(remainingHints,
                                        Slice(remaining, position + currentHint + 1, Len(remaining)), 1)
                        IN  [k \in 1..Len(subs) |->
                                Fill(position + offset, Empty) \o Fill(currentHint, Filled) \o subs[k]]
                   ELSE <<>>
             IN  here \o permutationsFrom(hintValues, remaining, offset, position + 1)

\* generatePermutations: the sequence of the patterns the generator yields
generatePermutations(hintValues, remaining, offset) ==
    IF Len(hintValues) > 0 /\ Head(hintValues) # 0
    THEN permutationsFrom(hintValues, remaining, offset, 0)
    ELSE << <<>> >>

\* the mutant of completePattern: the pattern is not padded
completePatternUnpadded(pattern, currentSequence) == pattern

\* a pattern padded with empty cells to the length of the sequence
completePattern(pattern, currentSequence) ==
    pattern \o Fill(Len(currentSequence) - Len(pattern), Empty)

\* the mutant of patternIsValid: the determined cells are not looked at
patternIsValidAlways(completedPattern, currentSequence) == TRUE

\* the validity test of resolveSequence: the pattern agrees with every determined cell
patternIsValid(completedPattern, currentSequence) ==
    \A k \in 1..Len(currentSequence) :
        ~(currentSequence[k] > 0 /\ ~CellIs(completedPattern, k - 1, currentSequence[k]))

\* the mutant of intersectPatterns: the first valid pattern is kept as it is
intersectPatternsKeepFirst(resolvedSequence, patterns) == resolvedSequence

RECURSIVE intersectPatterns(_, _)
\* the fold of resolveSequence over validPatterns.slice(1)
intersectPatterns(resolvedSequence, patterns) ==
    IF Len(patterns) = 0 THEN resolvedSequence
    ELSE intersectPatterns(
             [k \in 1..Len(resolvedSequence) |->
                 IF CellIs(Head(patterns), k - 1, resolvedSequence[k]) THEN resolvedSequence[k] ELSE Unknown],
             Tail(patterns))

\* resolveSequence of the synchronous solver; gives [isNull, result]
syncResolveSequence(hintValues, currentSequence) ==
    LET all == generatePermutations(hintValues, currentSequence, 0)
        completed == [k \in 1..Len(all) |-> completePattern(all[k], currentSequence)]
        validPatterns == SelectSeq(completed, LAMBDA p : patternIsValid(p, currentSequence))
    IN  IF Len(validPatterns) = 0 THEN [isNull |-> TRUE, result |-> <<>>]
        ELSE [isNull |-> FALSE, result |-> intersectPatterns(validPatterns[1], Tail(validPatterns))]

---------------------------------------------------------------------------
(* The worker pool: src/src/SegmentWorkerPool.ts.  A pool is a record; each
   method is an operator from the pool before to the pool after.  A PoolWorker
   carries, besides busy and currentTaskId, the state of its thread: the
   messages posted to it and not yet handled (inbox), the events it has emitted
   that the main thread has not yet handled (events), and its memoCache. *)

\* promise states
Pending == [state |-> "pending", value |-> <<>>, reason |-> ""]
Resolved(v) == [state |-> "resolved", value |-> v, reason |-> ""]
Rejected(why) == [state |-> "rejected", value |-> <<>>, reason |-> why]

\* the taskId that stands for `undefined` (ids are drawn from 1 on)
NoTask == 0

EmptyMap == [k \in {} |-> 0]
MapSet(m, key, value) == [k \in (DOMAIN m) \cup {key} |-> IF k = key THEN value ELSE m[k]]
MapDelete(m, key) == [k \in (DOMAIN m) \ {key} |-> m[k]]

\* resolve/reject of a promise: the first settlement stands
Settle(promises, id, result) ==
    IF promises[id].state = "pending" THEN [promises EXCEPT ![id] = result] ELSE promises

\* constructor: maxWorkers || availableCpus
NewPool(maxWorkersArg, availableCpus) ==
    [constructed |-> TRUE,
     maxWorkers |-> IF maxWorkersArg # 0 THEN maxWorkersArg ELSE availableCpus,
     workers |-> <<>>,
     taskQueue |-> <<>>,
     activeTasks |-> EmptyMap,
     promises |-> EmptyMap,
     nextTaskId |-> 1,
     created |-> 0,
     terminateCalls |-> 0,
     posted |-> <<>>]

\* the builds of the package: process.env.RUNTIME is defined as "node" (worker_threads)
\* or as "browser" (Web Workers)
Runtimes == {"node", "browser"}
\* the value of runtime in a program that builds no pool
NoRuntime == "none"

\* createWorker: a fresh idle worker with its listeners attached; alive tells that
\* the thread behind the worker runs
createWorker ==
    [busy |-> FALSE, currentTaskId |-> NoTask, inbox |-> <<>>, events |-> <<>>,
     cache |-> EmptyCache, alive |-> TRUE]

\* the mutant of getAvailableWorker: the test against maxWorkers is lost
getAvailableWorkerUnbounded(p) ==
    LET free == {w \in 1..Len(p.workers) : ~p.workers[w].busy}
    IN  IF free # {}
        THEN [pool |-> p, worker |-> CHOOSE w \in free : \A v \in free : w <= v]
        ELSE [pool |-> [p EXCEPT !.workers = Append(@, createWorker), !.created = @ + 1],
              worker |-> Len(p.workers) + 1]

\* the mutant of getAvailableWorker: a worker is created while the pool is below
\* its maximum, and a free one looked for only then
getAvailableWorkerCreateFirst(p) ==
    LET free == {w \in 1..Len(p.workers) : ~p.workers[w].busy}
    IN  IF Len(p.workers) < p.maxWorkers
        THEN [pool |-> [p EXCEPT !.workers = Append(@, createWorker), !.created = @ + 1],
              worker |-> Len(p.workers) + 1]
        ELSE IF free # {}
        THEN [pool |-> p, worker |-> CHOOSE w \in free : \A v \in free : w <= v]
        ELSE [pool |-> p, worker |-> 0]

\* getAvailableWorker: gives [pool, worker], worker the index of the PoolWorker or 0 for null
getAvailableWorker(p) ==
    LET free == {w \in 1..Len(p.workers) : ~p.workers[w].busy}
    IN  IF free # {}
        THEN [pool |-> p, worker |-> CHOOSE w \in free : \A v \in free : w <= v]
        ELSE IF Len(p.workers) < p.maxWorkers
        THEN [pool |-> [p EXCEPT !.workers = Append(@, createWorker), !.created = @ + 1],
              worker |-> Len(p.workers) + 1]
        ELSE [pool |-> p, worker |-> 0]

RECURSIVE processNextTaskLifo(_)
\* the mutant of processNextTask: pop() in place of shift()
processNextTaskLifo(p) ==
    IF Len(p.taskQueue) = 0 THEN p
    ELSE LET got == getAvailableWorker(p)
         IN  IF got.worker = 0 THEN got.pool
             ELSE LET n == Len(got.pool.taskQueue)
                      task == got.pool.taskQueue[n]
                      w == got.worker
                  IN  processNextTaskLifo(
                        [got.pool EXCEPT
                           !.taskQueue = SubSeq(@, 1, n - 1),
                           !.activeTasks = MapSet(@, task.taskId, task),
                           !.workers[w].busy = TRUE,
                           !.workers[w].currentTaskId = task.taskId,
                           !.workers[w].inbox = Append(@, task),
                           !.posted = Append(@, task.taskId)])

RECURSIVE processNextTaskNoActive(_)
\* the mutant of processNextTask: the task is not stored in activeTasks
processNextTaskNoActive(p) ==
    IF Len(p.taskQueue) = 0 THEN p
    ELSE LET got == getAvailableWorker(p)
         IN  IF got.worker = 0 THEN got.pool
             ELSE LET task == Head(got.pool.taskQueue)
                      w == got.worker
                  IN  processNextTaskNoActive(
                        [got.pool EXCEPT
                           !.taskQueue = Tail(@),
                           !.workers[w].busy = TRUE,
                           !.workers[w].currentTaskId = task.taskId,
                           !.workers[w].inbox = Append(@, task),
                           !.posted = Append(@, task.taskId)])

RECURSIVE processNextTask(_)
processNextTask(p) ==
    IF Len(p.taskQueue) = 0 THEN p
    ELSE LET got == getAvailableWorker(p)
         IN  IF got.worker = 0 THEN got.pool
             ELSE LET task == Head(got.pool.taskQueue)
                      w == got.worker
                  IN  processNextTask(
                        [got.pool EXCEPT
                           !.taskQueue = Tail(@),
                           !.activeTasks = MapSet(@, task.taskId, task),
                           !.workers[w].busy = TRUE,
                           !.workers[w].currentTaskId = task.taskId,
                           !.workers[w].inbox = Append(@, task),
                           !.posted = Append(@, task.taskId)])

\* submitTask: the task gets a fresh id (Math.random is taken not to repeat);
\* its promise is promises[id]
submitTask(p, payload) ==
    LET taskId == p.nextTaskId
        task == [taskId |-> taskId, hints |-> payload.hints, segment |-> payload.segment]
    IN  processNextTask(
          [p EXCEPT !.nextTaskId = @ + 1,
                    !.promises = MapSet(@, taskId, Pending),
                    !.taskQueue = Append(@, task)])

RECURSIVE rejectAll(_, _, _)
rejectAll(promises, ids, why) ==
    IF ids = {} THEN promises
    ELSE LET id == CHOOSE i \in ids : TRUE
         IN  rejectAll(Settle(promises, id, Rejected(why)), ids \ {id}, why)

\* the mutant of terminate: the tasks in flight are not rejected
terminateQueuedOnly(p) ==
    LET queued == {p.taskQueue[k].taskId : k \in 1..Len(p.taskQueue)}
    IN  [p EXCEPT !.promises = rejectAll(@, queued, "Worker pool terminated"),
                  !.taskQueue = <<>>,
                  !.activeTasks = EmptyMap,
                  !.workers = <<>>,
                  !.created = 0,
                  !.terminateCalls = @ + 1]

\* terminate; created counts the workers created since construction or since the
\* last terminate
terminate(p) ==
    LET queued == {p.taskQueue[k].taskId : k \in 1..Len(p.taskQueue)}
        active == DOMAIN p.activeTasks
    IN  [p EXCEPT !.promises = rejectAll(@, queued \cup active, "Worker pool terminated"),
                  !.taskQueue = <<>>,
                  !.activeTasks = EmptyMap,
                  !.workers = <<>>,
                  !.created = 0,
                  !.terminateCalls = @ + 1]

\* the mutant of onWorkerMessage: the listener does not call processNextTask
onWorkerMessageNoNext(p, w) ==
    LET event == Head(p.workers[w].events)
        taskId == event.taskId
        known == taskId \in DOMAIN p.activeTasks
    IN  [p EXCEPT
           !.activeTasks = IF known THEN MapDelete(@, taskId) ELSE @,
           !.promises = IF known THEN Settle(@, taskId, Resolved(event.payload)) ELSE @,
           !.workers[w].events = Tail(@),
           !.workers[w].busy = FALSE,
           !.workers[w].currentTaskId = NoTask]

\* the mutant of onWorkerMessage: the result settles the oldest task in flight, not
\* the task the message names
onWorkerMessageOldestTask(p, w) ==
    LET event == Head(p.workers[w].events)
        active == DOMAIN p.activeTasks
        taskId == IF active = {} THEN event.taskId
                  ELSE CHOOSE i \in active : \A j \in active : i <= j
        known == taskId \in active
        p1 == [p EXCEPT
                 !.activeTasks = IF known THEN MapDelete(@, taskId) ELSE @,
                 !.promises = IF known THEN Settle(@, taskId, Resolved(event.payload)) ELSE @,
                 !.workers[w].events = Tail(@),
                 !.workers[w].busy = FALSE,
                 !.workers[w].currentTaskId = NoTask]
    IN  processNextTask(p1)

\* the "message" listener of worker w, for the event at the head of its events
onWorkerMessage(p, w) ==
    LET event == Head(p.workers[w].events)
        taskId == event.taskId
        known == taskId \in DOMAIN p.activeTasks
        p1 == [p EXCEPT
                 !.activeTasks = IF known THEN MapDelete(@, taskId) ELSE @,
                 !.promises = IF known THEN Settle(@, taskId, Resolved(event.payload)) ELSE @,
                 !.workers[w].events = Tail(@),
                 !.workers[w].busy = FALSE,
                 !.workers[w].currentTaskId = NoTask]
    IN  processNextTask(p1)

\* the mutant of onWorkerError: the failing worker is dropped from the pool
onWorkerErrorDropsWorker(p, w) ==
    LET event == Head(p.workers[w].events)
        taskId == p.workers[w].currentTaskId
        known == taskId # NoTask /\ taskId \in DOMAIN p.activeTasks
        p1 == [p EXCEPT
                 !.activeTasks = IF known THEN MapDelete(@, taskId) ELSE @,
                 !.promises = IF known THEN Settle(@, taskId, Rejected(event.error)) ELSE @,
                 !.workers = SubSeq(@, 1, w - 1) \o SubSeq(@, w + 1, Len(@))]
    IN  processNextTask(p1)

\* the mutant of onWorkerError: the listener does not call processNextTask
onWorkerErrorNoNext(p, w) ==
    LET event == Head(p.workers[w].events)
        taskId == p.workers[w].currentTaskId
        known == taskId # NoTask /\ taskId \in DOMAIN p.activeTasks
    IN  [p EXCEPT
           !.activeTasks = IF known THEN MapDelete(@, taskId) ELSE @,
           !.promises = IF known THEN Settle(@, taskId, Rejected(event.error)) ELSE @,
           !.workers[w].events = Tail(@),
           !.workers[w].busy = FALSE,
           !.workers[w].currentTaskId = NoTask]

\* the "error" listener of worker w, for the event at the head of its events
onWorkerError(p, w) ==
    LET event == Head(p.workers[w].events)
        taskId == p.workers[w].currentTaskId
        known == taskId # NoTask /\ taskId \in DOMAIN p.activeTasks
        p1 == [p EXCEPT
                 !.activeTasks = IF known THEN MapDelete(@, taskId) ELSE @,
                 !.promises = IF known THEN Settle(@, taskId, Rejected(event.error)) ELSE @,
                 !.workers[w].events = Tail(@),
                 !.workers[w].busy = FALSE,
                 !.workers[w].currentTaskId = NoTask]
    IN  processNextTask(p1)

\* handleMessage in the thread of worker w (src/src/workers/SegmentWorker.ts lines
\* 24-49): the message at the head of the inbox is solved with the thread's cache;
\* a RESULT is posted back, or the throw surfaces as the worker's error event.
\* handleMessage catches nothing: under worker_threads the uncaught exception ends
\* the thread, in a browser the worker goes on after its error event
workerHandleMessage(p, w) ==
    LET message == Head(p.workers[w].inbox)
        r == resolveSequence(message.hints, message.segment, p.workers[w].cache)
        event == IF r.threw
                 THEN [type |-> "error", taskId |-> NoTask, payload |-> <<>>,
                       error |-> "Segment not possible to solve"]
                 ELSE [type |-> "message", taskId |-> message.taskId, payload |-> r.result,
                       error |-> ""]
    IN  [p EXCEPT !.workers[w].inbox = Tail(@),
                  !.workers[w].cache = r.cache,
                  !.workers[w].events = Append(@, event),
                  !.workers[w].alive = ~(r.threw /\ runtime = "node")]

---------------------------------------------------------------------------
(* What a line means: the block lengths of a line and the placements of a hint
   sequence that agree with a line's determined cells.  These are the reference
   the line solvers are measured against; nothing of the program uses them. *)

RECURSIVE BlockLengthsFrom(_, _, _)
BlockLengthsFrom(line, k, run) ==
    IF k > Len(line) THEN (IF run > 0 THEN <<run>> ELSE <<>>)
    ELSE IF line[k] = Filled THEN BlockLengthsFrom(line, k + 1, run + 1)
    ELSE (IF run > 0 THEN <<run>> ELSE <<>>) \o BlockLengthsFrom(line, k + 1, 0)

\* the lengths of the maximal runs of Filled cells, in order
BlockLengths(line) == BlockLengthsFrom(line, 1, 0)

\* every full line with the blocks `hints` that agrees with the determined cells of `line`
Placements(hints, line) ==
    {b \in [1..Len(line) -> {Empty, Filled}] :
        /\ BlockLengths(b) = hints
        /\ \A k \in 1..Len(line) : line[k] # Unknown => b[k] = line[k]}

AllPositive(hints) == \A k \in 1..Len(hints) : hints[k] > 0

---------------------------------------------------------------------------
(* The inputs of a single line solve *)

\* sequences over S of length at most n
RECURSIVE SeqsUpTo(_, _)
SeqsUpTo(S, n) ==
    IF n = 0 THEN {<<>>}
    ELSE SeqsUpTo(S, n - 1) \cup [1..n -> S]

\* hint sequences tried on a single line: up to two blocks of 0..MaxHint, and
\* three blocks of one cell
LineHintInputs == SeqsUpTo(0..MaxHint, 2) \cup {<<1, 1, 1>>}

\* tri-state lines of length at most MaxLineLen
LineSegmentInputs == SeqsUpTo(Cells, MaxLineLen)

---------------------------------------------------------------------------
(* The puzzles given to a whole solve *)

NotRun == [ran |-> FALSE, threw |-> FALSE, result |-> <<>>]

\* a worker thread that has not handled the line yet; its memoCache is `cache`
WorkerNotRun(cache) ==
    [ran |-> FALSE, threw |-> FALSE, result |-> <<>>, searched |-> FALSE, cache |-> cache]

\* lines a worker thread may have solved before the line under test
WarmLines == {[hints |-> <<1>>, segment |-> <<Unknown, Unknown>>]}

\* the memoCache of a worker thread when a SOLVE message arrives: empty in a fresh
\* thread, or what the thread's previous line solve left in it
PriorCaches ==
    {EmptyCache} \cup {resolveSequence(l.hints, l.segment, EmptyCache).cache : l \in WarmLines}
NoPool == [constructed |-> FALSE]
Running == [kind |-> "running"]

\* the hint sequences of the pictures of a line of length n
PictureHints(n) == {BlockLengths(b) : b \in [1..n -> {Empty, Filled}]}

\* the hints tried on a line of length n: every one that fits, and one block too long
PuzzleLineHints(n) == PictureHints(n) \cup {<<n + 1>>}

Shapes == {d \in (1..MaxSide) \X (1..MaxSide) : d[1] * d[2] <= MaxCells}

\* every puzzle of sides up to MaxSide and of at most MaxCells cells over those hints
SizedPuzzles ==
    UNION {[rows : [1..d[1] -> PuzzleLineHints(d[2])], cols : [1..d[2] -> PuzzleLineHints(d[1])]]
             : d \in Shapes}

\* inputs with an empty list of row hints or of column hints
EmptyPuzzles ==
    {q \in [rows : SeqsUpTo({<<>>, <<1>>}, 1), cols : SeqsUpTo({<<>>, <<1>>}, 1)] :
        Len(q.rows) = 0 \/ Len(q.cols) = 0}

\* the example of the README (src/README.md lines 25-36)
Scenario1 == [rows |-> << <<1, 1>>, <<3>>, <<1>> >>, cols |-> << <<2>>, <<1>>, <<3>> >>]
Scenario1Grid == << <<TRUE, FALSE, TRUE>>, <<TRUE, TRUE, TRUE>>, <<FALSE, FALSE, TRUE>> >>

\* one row [3] over three columns [1]
Scenario2 == [rows |-> << <<3>> >>, cols |-> << <<1>>, <<1>>, <<1>> >>]

\* two rows [1] and two columns [1]: two pictures fit
AmbiguousPuzzle == [rows |-> << <<1>>, <<1>> >>, cols |-> << <<1>>, <<1>> >>]

Puzzles == SizedPuzzles \cup EmptyPuzzles \cup {Scenario1, Scenario2, AmbiguousPuzzle}

\* DEFAULT_OPTIONS.maxIterations (src/unnamed/part_000 line 5)
DefaultMaxIterations == 100

\* the maxIterations a caller passes, or the default
MaxIterationsInputs == (0..MaxIterBudget) \cup {DefaultMaxIterations}

---------------------------------------------------------------------------
(* Pieces shared by the two solvers *)

\* Array(height).fill(null).map(() => Array(width).fill(0))
newGrid(height, width) == Fill(height, Fill(width, Unknown))

\* transpose: arr[0].map((_, i) => arr.map(row => row[i]))
transpose(arr) == [i \in 1..Len(arr[1]) |-> [k \in 1..Len(arr) |-> arr[k][i]]]

\* the mutant of formatGrid: the cell is compared with 1, the value of an empty cell
formatGridEmptyIsTrue(g) == [y \in 1..Len(g) |-> [x \in 1..Len(g[y]) |-> g[y][x] = Empty]]

\* grid.map(row => row.map(cell => cell === 2))
formatGrid(g) == [y \in 1..Len(g) |-> [x \in 1..Len(g[y]) |-> g[y][x] = Filled]]

\* grid.some(row => row.some(cell => cell === 0))
hasUnknowns(g) == \E y \in 1..Len(g) : \E x \in 1..Len(g[y]) : g[y][x] = Unknown

Returned(g) == [kind |-> "grid", grid |-> g, message |-> ""]
Thrown(message) == [kind |-> "error", grid |-> <<>>, message |-> message]
NoSolutionFound == [kind |-> "failure", grid |-> <<>>, message |-> ""]
\* { success: false, reason: "Operation aborted" }
OperationAborted == [kind |-> "failure", grid |-> <<>>, message |-> "Operation aborted"]

\* no AbortSignal, no timeout, no timer and no promise: the programs that take none
NoCancellation ==
    [signal |-> "none",          \* the AbortSignal: "none" (not passed), "clear" or "aborted"
     msTimeout |-> 0,            \* the timeout argument of asyncSolveNonogram
     timer |-> "unset",          \* the setTimeout timer: "unset", "armed" or "fired"
     promise |-> [state |-> "none", value |-> <<>>, reason |-> ""],
                                 \* the promise asyncSolveNonogram returns
     abortedBeforeCall |-> FALSE,\* ghost: the signal was aborted before solveNonogram was called
     deadline |-> "ahead"]       \* ghost: msTimeout counted from the call: "ahead",
                                 \* "passedBeforeResult" or "passedAfterResult"

\* ghost: what a run has done so far
NoHistory ==
    [iterations |-> <<>>,   \* per finished iteration: did it change a cell, are cells Unknown
     infeasible |-> FALSE,  \* a line solve has reported that its line is infeasible
     lineSolves |-> 0,      \* sync: calls of resolveSequence
     merges |-> 0,          \* pool: batches merged into the grid
     batches |-> 0,         \* pool: batches submitted
     outOfOrder |-> FALSE,  \* pool: a task of a batch was resolved before an earlier one
     atInfeasible |-> [lineSolves |-> 0, merges |-> 0, batches |-> 0]]

---------------------------------------------------------------------------
(* The pool-based solver: src/unnamed/part_000.  Its state between two awaits
   is the record [pc, grid, hasChanges, currentIteration, batch, pool, outcome,
   history]; each operator below is a stretch of solveNonogram run without
   suspension. *)

RECURSIVE submitLines(_, _, _, _, _)
\* the for loops at lines 38-43 and 65-70: one submitTask per line, in order
submitLines(p, hints, segments, k, ids) ==
    IF k > Len(hints) THEN [pool |-> p, ids |-> ids]
    ELSE submitLines(submitTask(p, [hints |-> hints[k], segment |-> segments[k]]),
                     hints, segments, k + 1, Append(ids, p.nextTaskId))

\* the mutant of isNewLineDifferent: the comparison with the current line is lost
isNewLineDifferentAnyDetermined(newLine, currentLine) ==
    \E k \in 1..Len(newLine) : newLine[k] # Unknown

\* newLine.some((cell, i) => cell !== 0 && currentLine[i] !== cell)
isNewLineDifferent(newLine, currentLine) ==
    \E k \in 1..Len(newLine) : newLine[k] # Unknown /\ ~CellIs(currentLine, k - 1, newLine[k])

\* the forEach at lines 51-58 and 77-87: a line is replaced when the new one differs
mergeLines(current, processed) ==
    [lines |-> [k \in 1..Len(current) |->
                   IF isNewLineDifferent(processed[k], current[k]) THEN processed[k] ELSE current[k]],
     changed |-> \E k \in 1..Len(current) : isNewLineDifferent(processed[k], current[k])]

\* the thrown error leaves the pool as it is
abandon(st, message) == [st EXCEPT !.pc = "done", !.outcome = Thrown(message)]

\* the mutant of rejectBatch: the error is thrown without terminating the pool
rejectBatchNoTerminate(st) == abandon(st, "Puzzle is unsolvable")

\* the catch handlers at lines 45-48 and 72-75
rejectBatch(st) ==
    abandon([st EXCEPT !.pool = terminate(@)], "Puzzle is unsolvable")

\* the mutant of the exit of the loop: the budget test is lost
finishNoBudget(st) ==
    [st EXCEPT !.pool = terminate(@), !.pc = "done", !.outcome = Returned(formatGrid(st.grid))]

\* lines 101-107: after the loop
finish(st) ==
    LET st1 == [st EXCEPT !.pool = terminate(@)]
    IN  IF st1.currentIteration >= maxIterations
        THEN abandon(st1, "Maximum iterations exceeded")
        ELSE [st1 EXCEPT !.pc = "done", !.outcome = Returned(formatGrid(st1.grid))]

\* lines 31-43: the loop test, and an iteration up to the await of its rows
loopHead(st) ==
    IF st.hasChanges /\ st.currentIteration < maxIterations
    THEN LET sub == submitLines(st.pool, rowsHints, st.grid, 1, <<>>)
         IN  [st EXCEPT !.hasChanges = FALSE,
                        !.currentIteration = @ + 1,
                        !.batch = sub.ids,
                        !.pool = sub.pool,
                        !.pc = "awaitRows",
                        !.history.batches = @ + 1]
    ELSE finish(st)

batchValues(st) == [k \in 1..Len(st.batch) |-> st.pool.promises[st.batch[k]].value]

\* the mutant of afterRows: the columns are cut from the grid as it was before the
\* row results were merged
afterRowsUnmergedSnapshot(st) ==
    LET merged == mergeLines(st.grid, batchValues(st))
        transposedGrid == transpose(st.grid)
        sub == submitLines(st.pool, columnsHints, transposedGrid, 1, <<>>)
    IN  [st EXCEPT !.grid = merged.lines,
                   !.hasChanges = @ \/ merged.changed,
                   !.batch = sub.ids,
                   !.pool = sub.pool,
                   !.pc = "awaitColumns",
                   !.history.merges = @ + 1,
                   !.history.batches = @ + 1]

\* lines 50-70: the rows are merged and the columns submitted
afterRows(st) ==
    LET merged == mergeLines(st.grid, batchValues(st))
        transposedGrid == transpose(merged.lines)
        sub == submitLines(st.pool, columnsHints, transposedGrid, 1, <<>>)
    IN  [st EXCEPT !.grid = merged.lines,
                   !.hasChanges = @ \/ merged.changed,
                   !.batch = sub.ids,
                   !.pool = sub.pool,
                   !.pc = "awaitColumns",
                   !.history.merges = @ + 1,
                   !.history.batches = @ + 1]

\* the mutant of the stall test: Unknown cells are not looked for
stalledNever(st) == FALSE

\* lines 93-95: no change in the iteration, and a cell still Unknown
stalled(st) == ~st.hasChanges /\ hasUnknowns(st.grid)

\* lines 77-99: the columns are merged, the stall is tested, the loop goes round
afterColumns(st) ==
    LET transposedGrid == transpose(st.grid)
        merged == mergeLines(transposedGrid, batchValues(st))
        st1 == [st EXCEPT !.grid = transpose(merged.lines),
                          !.hasChanges = @ \/ merged.changed,
                          !.history.merges = @ + 1]
        st2 == [st1 EXCEPT !.history.iterations =
                   Append(@, [changed |-> st1.hasChanges, unknowns |-> hasUnknowns(st1.grid)])]
    IN  IF stalled(st2) THEN abandon(st2, "Puzzle is unsolvable")
        ELSE loopHead(st2)

\* what solveNonogram does when control returns to it after an event: the awaited
\* Promise.all rejects with the first rejection and resolves once every promise has
batchRejected(st) ==
    \E k \in 1..Len(st.batch) : st.pool.promises[st.batch[k]].state = "rejected"

batchResolved(st) ==
    \A k \in 1..Len(st.batch) : st.pool.promises[st.batch[k]].state = "resolved"

resume(st) ==
    IF st.pc \notin {"awaitRows", "awaitColumns"} THEN st
    ELSE IF batchRejected(st) THEN rejectBatch(st)
    ELSE IF batchResolved(st)
    THEN (IF st.pc = "awaitRows" THEN afterRows(st) ELSE afterColumns(st))
    ELSE st

\* the mutant of poolSolveStart: the pool is built and the loop entered unvalidated
poolSolveStartUnvalidated ==
    loopHead([pc |-> "start", grid |-> newGrid(Len(rowsHints), Len(columnsHints)),
              hasChanges |-> TRUE, currentIteration |-> 0, batch |-> <<>>,
              pool |-> NewPool(0, parallelism), outcome |-> Running, history |-> NoHistory])

\* lines 12-33: the call up to the first await (or to the throw)
poolSolveStart ==
    LET st0 == [pc |-> "start", grid |-> <<>>, hasChanges |-> FALSE, currentIteration |-> 0,
                batch |-> <<>>, pool |-> NoPool, outcome |-> Running, history |-> NoHistory]
    IN  IF Len(rowsHints) = 0 \/ Len(columnsHints) = 0
        THEN abandon(st0, "Invalid input: Empty hints")
        ELSE loopHead([st0 EXCEPT !.grid = newGrid(Len(rowsHints), Len(columnsHints)),
                                  !.hasChanges = TRUE,
                                  !.pool = NewPool(0, parallelism)])

solverState ==
    [pc |-> pc, grid |-> grid, hasChanges |-> hasChanges, currentIteration |-> currentIteration,
     batch |-> batch, pool |-> pool, outcome |-> outcome, history |-> history]

Becomes(st) ==
    /\ pc' = st.pc
    /\ grid' = st.grid
    /\ hasChanges' = st.hasChanges
    /\ currentIteration' = st.currentIteration
    /\ batch' = st.batch
    /\ pool' = st.pool
    /\ outcome' = st.outcome
    /\ history' = st.history

inputVars == <<mode, lineHints, lineSegment, workerOut, syncOut, rowsHints, columnsHints,
               maxIterations, parallelism, runtime, cancellation>>

\* a line solve is handed a line that has no consistent placement
noteInfeasible(h, threw) ==
    IF threw /\ ~h.infeasible
    THEN [h EXCEPT !.infeasible = TRUE,
                   !.atInfeasible = [lineSolves |-> h.lineSolves, merges |-> h.merges,
                                     batches |-> h.batches]]
    ELSE h

\* a task of the batch `ids` is resolved while an earlier task of it is pending
noteOutOfOrder(h, p, ids) ==
    IF \E j, k \in 1..Len(ids) :
          /\ j < k
          /\ p.promises[ids[j]].state = "pending"
          /\ p.promises[ids[k]].state = "resolved"
    THEN [h EXCEPT !.outOfOrder = TRUE]
    ELSE h

\* solveNonogram is called
PoolSolveCall ==
    /\ mode = "pool"
    /\ pc = "start"
    /\ Becomes(poolSolveStart)
    /\ UNCHANGED <<inputVars, lineIndex>>

\* the thread of worker w handles the message posted to it
WorkerRun(w) ==
    /\ mode = "pool"
    /\ pool.constructed
    /\ w \in 1..Len(pool.workers)
    /\ pool.workers[w].alive
    /\ Len(pool.workers[w].inbox) > 0
    /\ LET p == workerHandleMessage(pool, w)
       IN  /\ pool' = p
           /\ history' = noteInfeasible(history,
                                        p.workers[w].events[Len(p.workers[w].events)].type = "error")
    /\ UNCHANGED <<inputVars, pc, grid, hasChanges, currentIteration, lineIndex, batch, outcome>>

\* the main thread handles worker w's message event, and solveNonogram resumes
\* if that settled what it awaits
WorkerMessage(w) ==
    /\ mode = "pool"
    /\ pool.constructed
    /\ w \in 1..Len(pool.workers)
    /\ Len(pool.workers[w].events) > 0
    /\ Head(pool.workers[w].events).type = "message"
    /\ LET p == onWorkerMessage(pool, w)
       IN  Becomes(resume([solverState EXCEPT !.pool = p,
                                              !.history = noteOutOfOrder(history, p, batch)]))
    /\ UNCHANGED <<inputVars, lineIndex>>

\* the main thread handles worker w's error event, and solveNonogram resumes
WorkerError(w) ==
    /\ mode = "pool"
    /\ pool.constructed
    /\ w \in 1..Len(pool.workers)
    /\ Len(pool.workers[w].events) > 0
    /\ Head(pool.workers[w].events).type = "error"
    /\ Becomes(resume([solverState EXCEPT !.pool = onWorkerError(pool, w)]))
    /\ UNCHANGED <<inputVars, lineIndex>>

---------------------------------------------------------------------------
(* The synchronous solver: src/src/NonogramSolver.ts, one line per step *)

\* the forEach at lines 33-36: the resolved row is written into row y
writeRow(g, y, resolvedRow) ==
    [g EXCEPT ![y + 1] = [x \in 1..Len(@) |-> IF x <= Len(resolvedRow) THEN resolvedRow[x] ELSE @[x]]]

\* the forEach at lines 52-55: the resolved column is written into column x
writeColumn(g, x, resolvedColumn) ==
    [y \in 1..Len(g) |-> IF y <= Len(resolvedColumn)
                         THEN [g[y] EXCEPT ![x + 1] = resolvedColumn[y]]
                         ELSE g[y]]

\* cellValue && grid[..] !== cellValue, for some cell of the line
lineChanges(resolved, currentLine) ==
    \E k \in 1..Len(resolved) : resolved[k] # 0 /\ ~CellIs(currentLine, k - 1, resolved[k])

column(g, x) == [y \in 1..Len(g) |-> g[y][x + 1]]

RECURSIVE syncAdvance(_)
\* the loop tests between two line solves: the end of the row loop, the end of the
\* column loop, the while test and the return
syncAdvance(st) ==
    IF st.pc = "rows" /\ st.lineIndex >= Len(rowsHints)
    THEN syncAdvance([st EXCEPT !.pc = "columns", !.lineIndex = 0])
    ELSE IF st.pc = "columns" /\ st.lineIndex >= Len(columnsHints)
    THEN LET st1 == [st EXCEPT !.history.iterations =
                        Append(@, [changed |-> st.hasChanges, unknowns |-> hasUnknowns(st.grid)])]
         IN  IF st1.hasChanges
             THEN syncAdvance([st1 EXCEPT !.hasChanges = FALSE, !.pc = "rows", !.lineIndex = 0,
                                          !.currentIteration = @ + 1])
             ELSE [st1 EXCEPT !.pc = "done", !.outcome = Returned(formatGrid(st1.grid))]
    ELSE st

syncState ==
    [pc |-> pc, grid |-> grid, hasChanges |-> hasChanges, currentIteration |-> currentIteration,
     lineIndex |-> lineIndex, outcome |-> outcome, history |-> history]

SyncBecomes(st) ==
    /\ pc' = st.pc
    /\ grid' = st.grid
    /\ hasChanges' = st.hasChanges
    /\ currentIteration' = st.currentIteration
    /\ lineIndex' = st.lineIndex
    /\ outcome' = st.outcome
    /\ history' = st.history

\* lines 13-21: the call up to the first line solve
SyncSolveCall ==
    /\ mode = "sync"
    /\ pc = "start"
    /\ SyncBecomes(syncAdvance(
          [pc |-> "rows", grid |-> newGrid(Len(rowsHints), Len(columnsHints)),
           hasChanges |-> FALSE, currentIteration |-> 1, lineIndex |-> 0,
           outcome |-> Running, history |-> NoHistory]))
    /\ UNCHANGED <<inputVars, batch, pool>>

\* lines 24-37: one round of the row loop
SyncRow ==
    /\ mode = "sync"
    /\ pc = "rows"
    /\ LET y == lineIndex
           r == syncResolveSequence(rowsHints[y + 1], grid[y + 1])
           h == noteInfeasible([history EXCEPT !.lineSolves = @ + 1], r.isNull)
       IN  IF r.isNull
           THEN SyncBecomes([syncState EXCEPT !.pc = "done", !.outcome = NoSolutionFound,
                                              !.history = h])
           ELSE SyncBecomes(syncAdvance(
                  [syncState EXCEPT !.grid = writeRow(grid, y, r.result),
                                    !.hasChanges = @ \/ lineChanges(r.result, grid[y + 1]),
                                    !.lineIndex = y + 1,
                                    !.history = h]))
    /\ UNCHANGED <<inputVars, batch, pool>>

\* lines 40-56: one round of the column loop
SyncColumn ==
    /\ mode = "sync"
    /\ pc = "columns"
    /\ LET x == lineIndex
           r == syncResolveSequence(columnsHints[x + 1], column(grid, x))
           h == noteInfeasible([history EXCEPT !.lineSolves = @ + 1], r.isNull)
       IN  IF r.isNull
           THEN SyncBecomes([syncState EXCEPT !.pc = "done", !.outcome = NoSolutionFound,
                                              !.history = h])
           ELSE SyncBecomes(syncAdvance(
                  [syncState EXCEPT !.grid = writeColumn(grid, x, r.result),
                                    !.hasChanges = @ \/ lineChanges(r.result, column(grid, x)),
                                    !.lineIndex = x + 1,
                                    !.history = h]))
    /\ UNCHANGED <<inputVars, batch, pool>>

---------------------------------------------------------------------------
(* Spec: a whole solve of a puzzle, by the synchronous or by the pool-based solver *)

Init ==
    /\ mode \in {"sync", "pool"}
    /\ \E q \in Puzzles : rowsHints = q.rows /\ columnsHints = q.cols
    /\ maxIterations \in (IF mode = "pool" THEN MaxIterationsInputs ELSE {0})
    /\ parallelism \in (IF mode = "pool" THEN 1..MaxWorkers ELSE {0})
    /\ runtime \in (IF mode = "pool" THEN Runtimes ELSE {NoRuntime})
    /\ lineHints = <<>>
    /\ lineSegment = <<>>
    /\ workerOut = NotRun
    /\ syncOut = NotRun
    /\ pc = "start"
    /\ grid = <<>>
    /\ hasChanges = FALSE
    /\ currentIteration = 0
    /\ lineIndex = 0
    /\ batch = <<>>
    /\ pool = NoPool
    /\ outcome = Running
    /\ history = NoHistory
    /\ cancellation = NoCancellation

Next ==
    \/ PoolSolveCall
    \/ \E w \in 1..MaxWorkers : WorkerRun(w)
    \/ \E w \in 1..MaxWorkers : WorkerMessage(w)
    \/ \E w \in 1..MaxWorkers : WorkerError(w)
    \/ SyncSolveCall
    \/ SyncRow
    \/ SyncColumn

Spec == Init /\ [][Next]_vars

---------------------------------------------------------------------------
(* Values of the variables a program leaves alone *)

SolveIdle ==
    /\ rowsHints = <<>>
    /\ columnsHints = <<>>
    /\ maxIterations = 0
    /\ parallelism = 0
    /\ runtime = NoRuntime
    /\ pc = "none"
    /\ grid = <<>>
    /\ hasChanges = FALSE
    /\ currentIteration = 0
    /\ lineIndex = 0
    /\ batch = <<>>
    /\ pool = NoPool
    /\ outcome = Running
    /\ history = NoHistory
    /\ cancellation = NoCancellation

solveVars == <<rowsHints, columnsHints, maxIterations, parallelism, runtime, pc, grid, hasChanges,
               currentIteration, lineIndex, batch, pool, outcome, history, cancellation>>

---------------------------------------------------------------------------
(* SpecLine: one line, given to the worker's solver and to the synchronous one *)

InitLine ==
    /\ mode = "line"
    /\ lineHints \in LineHintInputs
    /\ lineSegment \in LineSegmentInputs
    /\ workerOut \in {WorkerNotRun(c) : c \in PriorCaches}
    /\ syncOut = NotRun
    /\ SolveIdle

\* the worker handles one SOLVE message (handleMessage) with its memoCache as it stands
WorkerResolve ==
    /\ mode = "line"
    /\ ~workerOut.ran
    /\ LET r == resolveSequence(lineHints, lineSegment, workerOut.cache)
       IN  workerOut' = [ran |-> TRUE, threw |-> r.threw, result |-> r.result,
                         searched |-> r.searched, cache |-> r.cache]
    /\ UNCHANGED <<mode, lineHints, lineSegment, syncOut, solveVars>>

\* the synchronous solver's resolveSequence on the same line
SyncResolve ==
    /\ mode = "line"
    /\ ~syncOut.ran
    /\ LET r == syncResolveSequence(lineHints, lineSegment)
       IN  syncOut' = [ran |-> TRUE, threw |-> r.isNull, result |-> r.result]
    /\ UNCHANGED <<mode, lineHints, lineSegment, workerOut, solveVars>>

NextLine == WorkerResolve \/ SyncResolve

SpecLine == InitLine /\ [][NextLine]_vars

---------------------------------------------------------------------------
(* SpecPool: a SegmentWorkerPool driven directly by a caller that submits tasks
   and terminates the pool at will, while the worker threads and the main
   thread's listeners run.  batch holds the payloads submitted so far, the
   payload of task id at index id. *)

\* the lines the caller submits: one that is solved and one whose solve throws
DriverPayloads ==
    {[hints |-> <<2>>, segment |-> <<Unknown, Unknown>>],
     [hints |-> <<3>>, segment |-> <<Unknown, Unknown>>]}

InitPool ==
    /\ mode = "driver"
    /\ lineHints = <<>>
    /\ lineSegment = <<>>
    /\ workerOut = NotRun
    /\ syncOut = NotRun
    /\ rowsHints = <<>>
    /\ columnsHints = <<>>
    /\ maxIterations = 0
    /\ parallelism \in 1..MaxWorkers
    /\ runtime \in Runtimes
    /\ pc = "none"
    /\ grid = <<>>
    /\ hasChanges = FALSE
    /\ currentIteration = 0
    /\ lineIndex = 0
    /\ batch = <<>>
    /\ \E maxWorkersArg \in 0..MaxWorkers : pool = NewPool(maxWorkersArg, parallelism)
    /\ outcome = Running
    /\ history = NoHistory
    /\ cancellation = NoCancellation

driverFrame == <<mode, lineHints, lineSegment, workerOut, syncOut, rowsHints, columnsHints,
                 maxIterations, parallelism, runtime, pc, grid, hasChanges, currentIteration,
                 lineIndex, outcome, history, cancellation>>

\* the caller calls submitTask(payload)
PoolSubmit ==
    /\ mode = "driver"
    /\ Len(batch) < MaxTasks
    /\ \E payload \in DriverPayloads :
         /\ pool' = submitTask(pool, payload)
         /\ batch' = Append(batch, payload)
    /\ UNCHANGED driverFrame

\* the caller calls terminate()
PoolTerminate ==
    /\ mode = "driver"
    /\ pool.terminateCalls < MaxTerminates
    /\ pool' = terminate(pool)
    /\ UNCHANGED <<driverFrame, batch>>

\* the thread of worker w handles the message posted to it
PoolWorkerRun(w) ==
    /\ mode = "driver"
    /\ w \in 1..Len(pool.workers)
    /\ pool.workers[w].alive
    /\ Len(pool.workers[w].inbox) > 0
    /\ pool' = workerHandleMessage(pool, w)
    /\ UNCHANGED <<driverFrame, batch>>

\* the main thread runs the "message" listener of worker w
PoolWorkerMessage(w) ==
    /\ mode = "driver"
    /\ w \in 1..Len(pool.workers)
    /\ Len(pool.workers[w].events) > 0
    /\ Head(pool.workers[w].events).type = "message"
    /\ pool' = onWorkerMessage(pool, w)
    /\ UNCHANGED <<driverFrame, batch>>

\* the main thread runs the "error" listener of worker w
PoolWorkerError(w) ==
    /\ mode = "driver"
    /\ w \in 1..Len(pool.workers)
    /\ Len(pool.workers[w].events) > 0
    /\ Head(pool.workers[w].events).type = "error"
    /\ pool' = onWorkerError(pool, w)
    /\ UNCHANGED <<driverFrame, batch>>

NextPool ==
    \/ PoolSubmit
    \/ PoolTerminate
    \/ \E w \in 1..MaxWorkers : PoolWorkerRun(w)
    \/ \E w \in 1..MaxWorkers : PoolWorkerMessage(w)
    \/ \E w \in 1..MaxWorkers : PoolWorkerError(w)

SpecPool == InitPool /\ [][NextPool]_vars

\* worker w's thread runs and has a message to handle: the enabling condition of
\* PoolWorkerRun(w)
PoolWorkerRunEnabled(w) ==
    /\ mode = "driver"
    /\ w \in 1..Len(pool.workers)
    /\ pool.workers[w].alive
    /\ Len(pool.workers[w].inbox) > 0

\* the pools of SpecPoolFair: built with every maxWorkers argument on a host that
\* reports MaxWorkers processors
InitPoolFair == InitPool /\ parallelism = MaxWorkers

\* the caller of SpecPoolFair: the same calls, fewer of them
PoolSubmitFair == Len(batch) < MaxFairTasks /\ PoolSubmit
PoolTerminateFair == pool.terminateCalls < MaxFairTerminates /\ PoolTerminate

NextPoolFair ==
    \/ PoolSubmitFair
    \/ PoolTerminateFair
    \/ \E w \in 1..MaxWorkers : PoolWorkerRun(w)
    \/ \E w \in 1..MaxWorkers : PoolWorkerMessage(w)
    \/ \E w \in 1..MaxWorkers : PoolWorkerError(w)

\* SpecPoolFair: every running worker thread that was posted a message handles it (weak
\* fairness of PoolWorkerRun(w), written out with its enabling condition), and the
\* main thread's event loop runs every listener whose event is waiting
SpecPoolFair ==
    /\ InitPoolFair
    /\ [][NextPoolFair]_vars
    /\ \A w \in 1..MaxWorkers :
         /\ ([]<>(~PoolWorkerRunEnabled(w)) \/ []<><<PoolWorkerRun(w)>>_vars)
         /\ WF_vars(PoolWorkerMessage(w))
         /\ WF_vars(PoolWorkerError(w))

---------------------------------------------------------------------------
(* SpecSignal: the synchronous solver that takes an AbortSignal, and
   asyncSolveNonogram, its promise wrapper with a timeout: src/tsup.config.ts
   lines 49-109 and 215-237.  solveNonogram calls resolveSequence without the
   signal (lines 68 and 84), so a line is solved as syncResolveSequence solves
   it.  The program is single-threaded: while solveNonogram runs no timer
   callback and no caller code runs, so the signal changes only before the call
   or after it has returned. *)

\* the timeout arguments tried: none, and one that is set
MsTimeoutInputs == {0, 1}

RECURSIVE signalAdvanceNoCheck(_, _)
\* the mutant of signalAdvance: the test of signal.aborted at lines 61-63 is lost
signalAdvanceNoCheck(st, signal) ==
    IF st.pc = "loop"
    THEN signalAdvanceNoCheck([st EXCEPT !.hasChanges = FALSE, !.pc = "rows", !.lineIndex = 0,
                                         !.currentIteration = @ + 1], signal)
    ELSE IF st.pc = "rows" /\ st.lineIndex >= Len(rowsHints)
    THEN signalAdvanceNoCheck([st EXCEPT !.pc = "columns", !.lineIndex = 0], signal)
    ELSE IF st.pc = "columns" /\ st.lineIndex >= Len(columnsHints)
    THEN LET st1 == [st EXCEPT !.history.iterations =
                        Append(@, [changed |-> st.hasChanges, unknowns |-> hasUnknowns(st.grid)])]
         IN  IF st1.hasChanges
             THEN signalAdvanceNoCheck([st1 EXCEPT !.pc = "loop"], signal)
             ELSE [st1 EXCEPT !.pc = "done", !.outcome = Returned(formatGrid(st1.grid))]
    ELSE st

RECURSIVE signalAdvance(_, _)
\* the control between two line solves: the head of the while body with the test
\* of signal.aborted (pc "loop"), the end of the row loop, the end of the column
\* loop, the while test and the return
signalAdvance(st, signal) ==
    IF st.pc = "loop"
    THEN IF signal = "aborted"
         THEN [st EXCEPT !.hasChanges = FALSE, !.pc = "done", !.outcome = OperationAborted]
         ELSE signalAdvance([st EXCEPT !.hasChanges = FALSE, !.pc = "rows", !.lineIndex = 0,
                                       !.currentIteration = @ + 1], signal)
    ELSE IF st.pc = "rows" /\ st.lineIndex >= Len(rowsHints)
    THEN signalAdvance([st EXCEPT !.pc = "columns", !.lineIndex = 0], signal)
    ELSE IF st.pc = "columns" /\ st.lineIndex >= Len(columnsHints)
    THEN LET st1 == [st EXCEPT !.history.iterations =
                        Append(@, [changed |-> st.hasChanges, unknowns |-> hasUnknowns(st.grid)])]
         IN  IF st1.hasChanges
             THEN signalAdvance([st1 EXCEPT !.pc = "loop"], signal)
             ELSE [st1 EXCEPT !.pc = "done", !.outcome = Returned(formatGrid(st1.grid))]
    ELSE st

\* lines 49-57: solveNonogram from its call to the first line solve
signalSolveStart(signal) ==
    signalAdvance([pc |-> "loop", grid |-> newGrid(Len(rowsHints), Len(columnsHints)),
                   hasChanges |-> TRUE, currentIteration |-> 0, lineIndex |-> 0,
                   outcome |-> Running, history |-> NoHistory], signal)

\* lines 66-79: one round of the row loop
signalRow(signal) ==
    LET y == lineIndex
        r == syncResolveSequence(rowsHints[y + 1], grid[y + 1])
        h == noteInfeasible([history EXCEPT !.lineSolves = @ + 1], r.isNull)
    IN  IF r.isNull
        THEN [syncState EXCEPT !.pc = "done", !.outcome = NoSolutionFound, !.history = h]
        ELSE signalAdvance(
               [syncState EXCEPT !.grid = writeRow(grid, y, r.result),
                                 !.hasChanges = @ \/ lineChanges(r.result, grid[y + 1]),
                                 !.lineIndex = y + 1,
                                 !.history = h], signal)

\* lines 82-98: one round of the column loop
signalColumn(signal) ==
    LET x == lineIndex
        r == syncResolveSequence(columnsHints[x + 1], column(grid, x))
        h == noteInfeasible([history EXCEPT !.lineSolves = @ + 1], r.isNull)
    IN  IF r.isNull
        THEN [syncState EXCEPT !.pc = "done", !.outcome = NoSolutionFound, !.history = h]
        ELSE signalAdvance(
               [syncState EXCEPT !.grid = writeColumn(grid, x, r.result),
                                 !.hasChanges = @ \/ lineChanges(r.result, column(grid, x)),
                                 !.lineIndex = x + 1,
                                 !.history = h], signal)

\* lines 219-236, once solveNonogram has returned inside the executor: the
\* solutionPromise is settled; with a timeout the timer is armed and the promise
\* returned is the race, which the settled solutionPromise wins
asyncSettle(c, st) ==
    IF st.pc # "done" THEN c
    ELSE LET solutionPromise == IF st.outcome.kind = "grid" THEN Resolved(st.outcome.grid)
                                ELSE Rejected("no solution")
         IN  IF c.msTimeout = 0
             THEN [c EXCEPT !.promise = solutionPromise]
             ELSE [c EXCEPT !.promise = solutionPromise, !.timer = "armed"]

signalFrame == <<mode, lineHints, lineSegment, workerOut, syncOut, rowsHints, columnsHints,
                 maxIterations, parallelism, runtime, batch, pool>>

\* the caller's code calls controller.abort(): before the call of solveNonogram or
\* after it has returned
CallerAborts ==
    /\ mode = "signal"
    /\ cancellation.signal = "clear"
    /\ pc \in {"start", "done"}
    /\ cancellation' = [cancellation EXCEPT !.signal = "aborted",
                                            !.abortedBeforeCall = (pc = "start")]
    /\ UNCHANGED <<signalFrame, pc, grid, hasChanges, currentIteration, lineIndex, outcome,
                   history>>

\* solveNonogram(input, signal) is called
SignalSolveCall ==
    /\ mode = "signal"
    /\ pc = "start"
    /\ SyncBecomes(signalSolveStart(cancellation.signal))
    /\ UNCHANGED <<signalFrame, cancellation>>

\* asyncSolveNonogram(input, timeout) is called: the controller is made and the
\* executor calls solveNonogram with its signal
AsyncSolveCall ==
    /\ mode = "async"
    /\ pc = "start"
    /\ LET st == signalSolveStart("clear")
       IN  /\ SyncBecomes(st)
           /\ cancellation' = asyncSettle([cancellation EXCEPT !.signal = "clear",
                                                               !.promise = Pending], st)
    /\ UNCHANGED signalFrame

SignalRow ==
    /\ mode \in {"signal", "async"}
    /\ pc = "rows"
    /\ LET st == signalRow(cancellation.signal)
       IN  /\ SyncBecomes(st)
           /\ cancellation' = IF mode = "async" THEN asyncSettle(cancellation, st)
                              ELSE cancellation
    /\ UNCHANGED signalFrame

SignalColumn ==
    /\ mode \in {"signal", "async"}
    /\ pc = "columns"
    /\ LET st == signalColumn(cancellation.signal)
       IN  /\ SyncBecomes(st)
           /\ cancellation' = IF mode = "async" THEN asyncSettle(cancellation, st)
                              ELSE cancellation
    /\ UNCHANGED signalFrame

\* ghost: msTimeout milliseconds have passed since asyncSolveNonogram was called
DeadlinePasses ==
    /\ mode = "async"
    /\ cancellation.msTimeout # 0
    /\ pc # "start"
    /\ cancellation.deadline = "ahead"
    /\ cancellation' = [cancellation EXCEPT !.deadline =
                           IF cancellation.promise.state = "pending"
                           THEN "passedBeforeResult" ELSE "passedAfterResult"]
    /\ UNCHANGED <<signalFrame, pc, grid, hasChanges, currentIteration, lineIndex, outcome,
                   history>>

\* lines 230-233: the timer's callback runs, msTimeout after the timer was armed
TimerFires ==
    /\ mode = "async"
    /\ cancellation.timer = "armed"
    /\ pc = "done"
    /\ cancellation' = [cancellation EXCEPT
                           !.timer = "fired",
                           !.promise = IF @.state = "pending"
                                       THEN Rejected("Operation timed out") ELSE @,
                           !.signal = "aborted",
                           !.deadline = IF @ = "ahead" THEN "passedAfterResult" ELSE @]
    /\ UNCHANGED <<signalFrame, pc, grid, hasChanges, currentIteration, lineIndex, outcome,
                   history>>

InitSignal ==
    /\ mode \in {"signal", "async"}
    /\ \E q \in Puzzles : rowsHints = q.rows /\ columnsHints = q.cols
    /\ cancellation \in
         IF mode = "signal"
         THEN {[NoCancellation EXCEPT !.signal = sig] : sig \in {"none", "clear"}}
         ELSE {[NoCancellation EXCEPT !.msTimeout = t] : t \in MsTimeoutInputs}
    /\ maxIterations = 0
    /\ parallelism = 0
    /\ runtime = NoRuntime
    /\ lineHints = <<>>
    /\ lineSegment = <<>>
    /\ workerOut = NotRun
    /\ syncOut = NotRun
    /\ pc = "start"
    /\ grid = <<>>
    /\ hasChanges = FALSE
    /\ currentIteration = 0
    /\ lineIndex = 0
    /\ batch = <<>>
    /\ pool = NoPool
    /\ outcome = Running
    /\ history = NoHistory

NextSignal ==
    \/ CallerAborts
    \/ SignalSolveCall
    \/ AsyncSolveCall
    \/ SignalRow
    \/ SignalColumn
    \/ DeadlinePasses
    \/ TimerFires

SpecSignal == InitSignal /\ [][NextSignal]_vars

---------------------------------------------------------------------------
(* Claims about a whole solve, checked under Spec *)

Done == pc = "done"
IsPuzzle(q) == rowsHints = q.rows /\ columnsHints = q.cols
LastIteration == history.iterations[Len(history.iterations)]
Iterated == Len(history.iterations) > 0

\* a returned row of booleans as a line of cells
cellsOf(boolLine) == [k \in 1..Len(boolLine) |-> IF boolLine[k] THEN Filled ELSE Empty]

\* C1: whenever the pool-based solveNonogram returns a grid, the block lengths
\* recomputed from the true cells of each row equal that row's hints, and the
\* same holds for each column.
C1_HintRoundTrip ==
    (mode = "pool" /\ outcome.kind = "grid") =>
        /\ Len(outcome.grid) = Len(rowsHints)
        /\ \A y \in 1..Len(rowsHints) :
             /\ Len(outcome.grid[y]) = Len(columnsHints)
             /\ BlockLengths(cellsOf(outcome.grid[y])) = rowsHints[y]
        /\ \A x \in 1..Len(columnsHints) :
             BlockLengths(cellsOf([y \in 1..Len(rowsHints) |-> outcome.grid[y][x]])) = columnsHints[x]

\* a grid returned by the pool-based solver with an all-false row and a filled row
C1_Witness ==
    /\ mode = "pool" /\ outcome.kind = "grid"
    /\ \E y, z \in 1..Len(rowsHints) : rowsHints[y] = <<>> /\ rowsHints[z] # <<>>

\* C2: the synchronous solveNonogram reports failure whenever an iteration
\* produces no change while a cell is still Unknown.
C2_SyncStallFails ==
    (mode = "sync" /\ Done /\ Iterated /\ ~LastIteration.changed /\ LastIteration.unknowns) =>
        outcome = NoSolutionFound

\* C3: rows [[1,1],[3],[1]] with columns [[2],[1],[3]] give the grid of the
\* README, in the synchronous solver and in the pool-based one under the
\* default maxIterations.
C3_Scenario1 ==
    (IsPuzzle(Scenario1) /\ Done /\ (mode = "sync" \/ maxIterations = DefaultMaxIterations)) =>
        outcome = Returned(Scenario1Grid)

\* the pool-based solver has finished the README's puzzle under the default budget
C3_Witness ==
    /\ IsPuzzle(Scenario1) /\ Done /\ mode = "pool" /\ maxIterations = DefaultMaxIterations
    /\ Len(history.iterations) >= 2

\* C4 as stated: rows [[3]] with columns [[1],[1],[1]] end in failure, not in a solved grid.
C4_Scenario2Fails ==
    (IsPuzzle(Scenario2) /\ Done) => outcome.kind # "grid"

\* C4 as amended: rows [[3]] with columns [[1],[1],[1]] give the grid
\* [[true,true,true]], in the synchronous solver and in the pool-based one under
\* the default maxIterations.
C4_Scenario2Solved ==
    (IsPuzzle(Scenario2) /\ Done /\ (mode = "sync" \/ maxIterations = DefaultMaxIterations)) =>
        outcome = Returned(<< <<TRUE, TRUE, TRUE>> >>)

\* the synchronous solver has finished the 1x3 puzzle
C4_Witness ==
    IsPuzzle(Scenario2) /\ Done /\ mode = "sync" /\ history.lineSolves >= 4

\* C5: in every step of a solve a cell that is Empty or Filled keeps its value;
\* a cell only ever goes from Unknown to Empty or to Filled.
C5_Monotonic ==
    [][\A y \in 1..Len(grid) : \A x \in 1..Len(grid[y]) :
          /\ grid'[y][x] \in Cells
          /\ grid[y][x] # Unknown => grid'[y][x] = grid[y][x]]_vars

\* a later merge over a grid that already held determined cells: the pool-based
\* solver is past the row merge of its second iteration with cells of each kind
C5_Witness ==
    /\ mode = "pool" /\ history.merges >= 3
    /\ \E y \in 1..Len(grid) : \E x \in 1..Len(grid[y]) : grid[y][x] = Filled
    /\ \E y \in 1..Len(grid) : \E x \in 1..Len(grid[y]) : grid[y][x] = Empty

\* C6: in the pool-based solve an iteration without change that leaves an Unknown
\* cell ends the run with 'Puzzle is unsolvable'; a grid is returned only after an
\* iteration without change that left no Unknown cell.
C6_Outcome ==
    mode = "pool" =>
        /\ (Iterated /\ ~LastIteration.changed /\ LastIteration.unknowns) =>
               (Done /\ outcome = Thrown("Puzzle is unsolvable"))
        /\ outcome.kind = "grid" =>
               (Iterated /\ ~LastIteration.changed /\ ~LastIteration.unknowns)

\* the pool-based solve has stalled: every line was feasible, nothing changed, cells are Unknown
C6_Witness ==
    /\ mode = "pool" /\ Done /\ ~history.infeasible
    /\ Iterated /\ ~LastIteration.changed /\ LastIteration.unknowns

\* C7: the pool-based solve fails with 'Maximum iterations exceeded' only if none
\* of its iterations was free of change; an iteration k <= maxIterations without
\* change that leaves no Unknown cell makes it return the grid.
C7_BudgetMeansNoFixedPoint ==
    (mode = "pool" /\ Done) =>
        /\ outcome = Thrown("Maximum iterations exceeded") =>
               \A k \in 1..Len(history.iterations) : history.iterations[k].changed
        /\ (Iterated /\ ~LastIteration.changed /\ ~LastIteration.unknowns) =>
               outcome.kind = "grid"

\* C8: once a line solve has reported its line infeasible, the synchronous solver
\* has returned success: false without another line solve; the pool-based solver
\* merges no batch and submits none, ends when the error event is handled, with
\* the pool terminated and 'Puzzle is unsolvable'; no grid is returned.
C8_InfeasibleEndsRun ==
    history.infeasible =>
        /\ outcome.kind # "grid"
        /\ mode = "sync" =>
             /\ Done /\ outcome = NoSolutionFound
             /\ history.lineSolves = history.atInfeasible.lineSolves
        /\ mode = "pool" =>
             /\ history.merges = history.atInfeasible.merges
             /\ history.batches = history.atInfeasible.batches
             /\ Done => /\ outcome = Thrown("Puzzle is unsolvable")
                        /\ pool.terminateCalls = 1
                        /\ pool.workers = <<>>
             /\ ~Done => \E w \in 1..Len(pool.workers) :
                            \E k \in 1..Len(pool.workers[w].events) :
                                pool.workers[w].events[k].type = "error"

\* a column of the second batch was infeasible and the pool-based run has ended
C8_Witness ==
    /\ mode = "pool" /\ history.infeasible /\ Done
    /\ history.atInfeasible.merges = 1

\* C9: with an empty list of row hints or of column hints the pool-based
\* solveNonogram fails with the invalid-input error, and no pool was constructed,
\* no task submitted and no worker created.
C9_InvalidInput ==
    (mode = "pool" /\ pc # "start" /\ (Len(rowsHints) = 0 \/ Len(columnsHints) = 0)) =>
        /\ Done
        /\ outcome = Thrown("Invalid input: Empty hints")
        /\ pool = NoPool
        /\ history.batches = 0

\* the pool-based solver was called with row hints and no column hints
C9_Witness ==
    mode = "pool" /\ Done /\ Len(rowsHints) > 0 /\ Len(columnsHints) = 0

---------------------------------------------------------------------------
(* C10: forced cells of the worker line solver *)

\* C10: for positive hints and a line that admits a consistent placement, the
\* worker's resolveSequence returns a line, and each cell that was Unknown is
\* Filled iff every consistent placement fills it, Empty iff none does, and
\* Unknown otherwise.
C10_ForcedCells ==
    (workerOut.ran /\ AllPositive(lineHints) /\ Placements(lineHints, lineSegment) # {}) =>
        /\ ~workerOut.threw
        /\ Len(workerOut.result) = Len(lineSegment)
        /\ \A k \in 1..Len(lineSegment) :
             lineSegment[k] = Unknown =>
               LET P == Placements(lineHints, lineSegment)
                   allFill == \A b \in P : b[k] = Filled
                   noneFill == \A b \in P : b[k] = Empty
               IN  /\ (workerOut.result[k] = Filled) <=> allFill
                   /\ (workerOut.result[k] = Empty) <=> noneFill
                   /\ (workerOut.result[k] = Unknown) <=> (~allFill /\ ~noneFill)

\* a solved line with several placements where one Unknown cell was forced
\* Filled, one forced Empty and one left Unknown
C10_Witness ==
    /\ workerOut.ran /\ ~workerOut.threw
    /\ AllPositive(lineHints)
    /\ Cardinality(Placements(lineHints, lineSegment)) >= 2
    /\ \E a, b, c \in 1..Len(lineSegment) :
         /\ lineSegment[a] = Unknown /\ workerOut.result[a] = Filled
         /\ lineSegment[b] = Unknown /\ workerOut.result[b] = Unknown
         /\ lineSegment[c] = Unknown /\ workerOut.result[c] = Empty

---------------------------------------------------------------------------
(* C11: feasibility decision of the worker line solver *)

\* the start positions (0-based) of the blocks `hints` in a line of n cells: every
\* block inside the line, consecutive blocks separated by at least one cell
BlockStarts(hints, n) ==
    {st \in [1..Len(hints) -> 0..n] :
        /\ \A k \in 1..Len(hints) : st[k] + hints[k] <= n
        /\ \A k \in 1..(Len(hints) - 1) : st[k + 1] >= st[k] + hints[k] + 1}

\* cell i (0-based) is covered by a block
Covered(hints, st, i) == \E k \in 1..Len(hints) : st[k] <= i /\ i < st[k] + hints[k]

\* the placements that cover every Filled cell and no Empty cell of the line
ConsistentStarts(hints, line) ==
    {st \in BlockStarts(hints, Len(line)) :
        \A i \in 0..(Len(line) - 1) :
            /\ CellIs(line, i, Filled) => Covered(hints, st, i)
            /\ CellIs(line, i, Empty) => ~Covered(hints, st, i)}

\* C11: the worker's resolveSequence throws 'Segment not possible to solve'
\* exactly when no placement of all hint blocks covers every Filled cell and no
\* Empty cell with the blocks separated; it returns a line in every other case.
C11_FeasibilityDecision ==
    workerOut.ran =>
        /\ workerOut.threw <=> (ConsistentStarts(lineHints, lineSegment) = {})
        /\ ~workerOut.threw => Len(workerOut.result) = Len(lineSegment)

\* a line that passes the quick validation and is rejected by the search
C11_Witness ==
    /\ workerOut.ran /\ workerOut.threw /\ workerOut.searched
    /\ Len(lineHints) = 2
    /\ ConsistentStarts(lineHints, lineSegment) = {}

---------------------------------------------------------------------------
(* C12: quick rejection without search *)

\* the quick validation of resolveSequence rejects the line
QuickReject(hints, line) ==
    \/ SumSeq(hints) + Max(0, Len(hints) - 1) > Len(line)
    \/ CountOf(line, Filled) > SumSeq(hints)

\* C12: when sum(hints) + max(0, len(hints)-1) exceeds the line length, or the
\* line has more Filled cells than sum(hints), the worker's resolveSequence throws
\* without calling canPlaceHints, and the memoCache is left as it was: neither
\* cleared nor written.
C12_QuickRejection ==
    [][(~workerOut.ran /\ workerOut'.ran /\ QuickReject(lineHints, lineSegment)) =>
          /\ workerOut'.threw
          /\ ~workerOut'.searched
          /\ workerOut'.cache = workerOut.cache]_vars

\* both quick rejections, met by a thread whose memoCache holds entries
C12_Witness ==
    /\ workerOut.ran /\ workerOut.threw /\ ~workerOut.searched
    /\ workerOut.cache # EmptyCache
    /\ CountOf(lineSegment, Filled) > SumSeq(lineHints)
    /\ SumSeq(lineHints) + Max(0, Len(lineHints) - 1) <= Len(lineSegment)

---------------------------------------------------------------------------
(* C13: frame of a line solve *)

\* C13: when the worker's resolveSequence returns, the returned line has the
\* length of the input line, every cell that was Empty or Filled in the input has
\* the same value in the output, and the caller's line is as it was.
C13_LineFrame ==
    [][(~workerOut.ran /\ workerOut'.ran /\ ~workerOut'.threw) =>
          /\ Len(workerOut'.result) = Len(lineSegment)
          /\ \A k \in 1..Len(lineSegment) :
                lineSegment[k] # Unknown => workerOut'.result[k] = lineSegment[k]
          /\ lineSegment' = lineSegment]_vars

\* a returned line that had an Empty, a Filled and an Unknown cell, the Unknown
\* one now determined
C13_Witness ==
    /\ workerOut.ran /\ ~workerOut.threw
    /\ \E a, b, c \in 1..Len(lineSegment) :
         /\ lineSegment[a] = Empty /\ workerOut.result[a] = Empty
         /\ lineSegment[b] = Filled /\ workerOut.result[b] = Filled
         /\ lineSegment[c] = Unknown /\ workerOut.result[c] # Unknown

---------------------------------------------------------------------------
(* Claims about the worker pool, checked under SpecPool *)

QueuedIds(p) == {p.taskQueue[k].taskId : k \in 1..Len(p.taskQueue)}
PendingIds(p) == {id \in DOMAIN p.promises : p.promises[id].state = "pending"}
PoolTerminated == "Worker pool terminated"
SegmentNotPossible == "Segment not possible to solve"

\* C14: whatever the caller submits and whatever the workers emit, the pool never
\* holds more workers than its maximum N, and never creates more than N workers
\* between two terminate() calls.
C14_PoolBound ==
    /\ pool.maxWorkers >= 1
    /\ Len(pool.workers) <= pool.maxWorkers
    /\ pool.created <= pool.maxWorkers

\* 2N tasks submitted to a pool of maximum N that was terminated before: N workers
\* busy and tasks waiting
C14_Witness ==
    /\ mode = "driver"
    /\ pool.terminateCalls >= 1
    /\ pool.maxWorkers = MaxWorkers
    /\ Len(pool.workers) = pool.maxWorkers
    /\ pool.created = pool.maxWorkers
    /\ Len(pool.taskQueue) >= 1
    /\ Len(batch) >= 2 * pool.maxWorkers

\* C15: terminate() rejects every task that is still queued or in flight with
\* 'Worker pool terminated', leaves settled tasks as they are, and leaves the
\* pool with no worker, an empty queue and no active task; called on a pool that
\* has nothing outstanding and no worker, it changes nothing.
C15_Terminate ==
    [][PoolTerminate =>
          /\ \A id \in DOMAIN pool.promises :
                pool'.promises[id] = IF id \in PendingIds(pool)
                                     THEN Rejected(PoolTerminated)
                                     ELSE pool.promises[id]
          /\ pool'.workers = <<>>
          /\ pool'.taskQueue = <<>>
          /\ pool'.activeTasks = EmptyMap
          /\ (pool.workers = <<>> /\ pool.taskQueue = <<>> /\ pool.activeTasks = EmptyMap) =>
                pool' = [pool EXCEPT !.terminateCalls = @ + 1]]_vars

\* terminate() was called twice on a pool of one worker, and both tasks the caller
\* submitted were rejected by it
C15_Witness ==
    /\ mode = "driver"
    /\ pool.terminateCalls = 2
    /\ pool.maxWorkers = 1
    /\ pool.workers = <<>>
    /\ Len(batch) = 2
    /\ \A id \in 1..2 : pool.promises[id] = Rejected(PoolTerminated)

\* C16: tasks are posted to workers in the order of their submission, and a task
\* is never posted while a task submitted before it waits in the queue.
C16_Fifo ==
    /\ \A i, j \in 1..Len(pool.posted) : i < j => pool.posted[i] < pool.posted[j]
    /\ \A a \in QueuedIds(pool) : \A k \in 1..Len(pool.posted) : pool.posted[k] < a
    /\ \A i, j \in 1..Len(pool.taskQueue) :
          i < j => pool.taskQueue[i].taskId < pool.taskQueue[j].taskId

\* a task that had waited in the queue was posted while a later one still waits
C16_Witness ==
    /\ mode = "driver"
    /\ pool.terminateCalls = 0
    /\ Len(pool.taskQueue) >= 1
    /\ \E k \in 1..Len(pool.posted) : pool.posted[k] > pool.maxWorkers

\* C17: when the error listener of worker w runs for task T, only T's promise is
\* rejected, every other promise, active task and worker is as before, worker w
\* stays in the pool, and it is idle with no current task unless a task was
\* queued, in which case the head of the queue is posted to it.
C17_FailureIsolation ==
    [][\A w \in 1..MaxWorkers :
         PoolWorkerError(w) =>
           LET T == pool.workers[w].currentTaskId
           IN  /\ pool.promises[T].state = "pending"
               /\ pool'.promises[T] = Rejected(SegmentNotPossible)
               /\ \A id \in DOMAIN pool.promises \ {T} : pool'.promises[id] = pool.promises[id]
               /\ DOMAIN pool'.promises = DOMAIN pool.promises
               /\ Len(pool'.workers) = Len(pool.workers)
               /\ \A v \in 1..Len(pool.workers) : v # w => pool'.workers[v] = pool.workers[v]
               /\ pool'.workers[w].events = <<>>
               /\ IF pool.taskQueue = <<>>
                  THEN /\ ~pool'.workers[w].busy
                       /\ pool'.workers[w].currentTaskId = NoTask
                       /\ pool'.workers[w].inbox = <<>>
                       /\ pool'.taskQueue = <<>>
                       /\ pool'.activeTasks = MapDelete(pool.activeTasks, T)
                  ELSE LET next == Head(pool.taskQueue)
                       IN  /\ pool'.workers[w].busy
                           /\ pool'.workers[w].currentTaskId = next.taskId
                           /\ pool'.workers[w].inbox = <<next>>
                           /\ pool'.taskQueue = Tail(pool.taskQueue)
                           /\ pool'.activeTasks =
                                 MapSet(MapDelete(pool.activeTasks, T), next.taskId, next)]_vars

\* in a pool of two workers the first task failed while the second was in flight
\* and two more were queued: the failing worker now holds the third task
C17_Witness ==
    /\ mode = "driver"
    /\ pool.terminateCalls = 0
    /\ pool.maxWorkers = 2
    /\ Len(pool.workers) = 2
    /\ Len(batch) = 4
    /\ pool.promises[1] = Rejected(SegmentNotPossible)
    /\ pool.promises[2].state = "pending"
    /\ pool.workers[1].currentTaskId = 3
    /\ pool.workers[2].currentTaskId = 2
    /\ QueuedIds(pool) = {4}

\* a task's promise is settled as its line solve ends: resolved with the solved
\* line, or rejected
TaskSettled(id) ==
    /\ id \in DOMAIN pool.promises
    /\ LET r == resolveSequence(batch[id].hints, batch[id].segment, EmptyCache)
       IN  \/ pool.promises[id].state = "rejected"
           \/ /\ pool.promises[id].state = "resolved"
              /\ ~r.threw
              /\ pool.promises[id].value = r.result

\* a message posted to worker w waits at its thread
PostedTo(w) == w \in 1..Len(pool.workers) /\ Len(pool.workers[w].inbox) > 0

\* the assumption of C18: a worker that was posted a task emits its message or its
\* error event for it, unless the pool is terminated first; no message waits at a
\* worker's thread for ever
EveryPostedTaskIsAnswered ==
    \A w \in 1..MaxWorkers : []<>(~PostedTo(w))

\* C18: when every worker that was posted a task emits its message or error
\* event for it unless the pool is terminated first, every submitted task's
\* promise is eventually resolved with that task's result or rejected.
C18_EverySubmittedTaskSettles ==
    EveryPostedTaskIsAnswered =>
        \A id \in 1..MaxFairTasks : (id \in DOMAIN pool.promises) ~> TaskSettled(id)

\* more tasks than workers were submitted under worker_threads and none was
\* terminated: all are settled, some resolved and some rejected by their worker's error
C18_Witness ==
    /\ mode = "driver"
    /\ runtime = "node"
    /\ pool.terminateCalls = 0
    /\ Len(batch) = MaxFairTasks
    /\ Len(batch) > pool.maxWorkers
    /\ \A id \in 1..Len(batch) : TaskSettled(id)
    /\ \E id \in 1..Len(batch) : pool.promises[id].state = "resolved"
    /\ \E id \in 1..Len(batch) : pool.promises[id] = Rejected(SegmentNotPossible)

---------------------------------------------------------------------------
(* Claims about cancellation, checked under SpecSignal *)

\* C19: for a puzzle with at least one cell, when the signal passed to the
\* synchronous solveNonogram is aborted before the first iteration has finished,
\* which in this program means before the call, the result is the failure with
\* reason 'Operation aborted' and never a SolutionFound.
C19_AbortBeforeFirstIteration ==
    (/\ mode = "signal"
     /\ cancellation.abortedBeforeCall
     /\ Len(rowsHints) >= 1 /\ Len(columnsHints) >= 1
     /\ Done) =>
        /\ outcome = OperationAborted
        /\ history.lineSolves = 0

\* the README puzzle, which solveNonogram solves, called with an aborted signal
C19_Witness ==
    /\ mode = "signal"
    /\ IsPuzzle(Scenario1)
    /\ cancellation.abortedBeforeCall
    /\ Done
    /\ outcome = OperationAborted

\* C20: in asyncSolveNonogram with a non-zero timeout the timer races the solve
\* from the start of the call: when the timeout expires before the solve has
\* produced its result, the returned promise rejects with 'Operation timed out'
\* instead of yielding a solution.
C20_TimeoutRaces ==
    (/\ mode = "async"
     /\ cancellation.msTimeout # 0
     /\ cancellation.deadline = "passedBeforeResult"
     /\ cancellation.promise.state # "pending") =>
        cancellation.promise = Rejected("Operation timed out")

---------------------------------------------------------------------------
(* C21: the pool-based solve with its line solves done one after the other in
   line order, as a function of the puzzle and of maxIterations alone *)

\* the lines that resolveSequence gives for the lines `segments`, in line order
linesInOrder(hints, segments) ==
    [k \in 1..Len(hints) |-> resolveSequence(hints[k], segments[k], EmptyCache)]

anyThrew(solved) == \E k \in 1..Len(solved) : solved[k].threw

resultsOf(solved) == [k \in 1..Len(solved) |-> solved[k].result]

RECURSIVE outcomeInOrder(_, _, _)
\* the while loop of solveNonogram from its test on, with result k of a batch
\* being resolveSequence of line k
outcomeInOrder(g, changes, iteration) ==
    IF ~(changes /\ iteration < maxIterations)
    THEN (IF iteration >= maxIterations THEN Thrown("Maximum iterations exceeded")
          ELSE Returned(formatGrid(g)))
    ELSE LET rows == linesInOrder(rowsHints, g)
         IN  IF anyThrew(rows) THEN Thrown("Puzzle is unsolvable")
             ELSE LET afterRowPass == mergeLines(g, resultsOf(rows))
                      cols == linesInOrder(columnsHints, transpose(afterRowPass.lines))
                  IN  IF anyThrew(cols) THEN Thrown("Puzzle is unsolvable")
                      ELSE LET afterColumnPass ==
                                   mergeLines(transpose(afterRowPass.lines), resultsOf(cols))
                               g2 == transpose(afterColumnPass.lines)
                               changed == afterRowPass.changed \/ afterColumnPass.changed
                           IN  IF ~changed /\ hasUnknowns(g2) THEN Thrown("Puzzle is unsolvable")
                               ELSE outcomeInOrder(g2, changed, iteration + 1)

\* solveNonogram with every batch solved in line order
outcomeOfSolve ==
    IF Len(rowsHints) = 0 \/ Len(columnsHints) = 0 THEN Thrown("Invalid input: Empty hints")
    ELSE outcomeInOrder(newGrid(Len(rowsHints), Len(columnsHints)), TRUE, 0)

\* C21: for a puzzle and a maxIterations, the outcome of the pool-based solve (the
\* grid returned, or the error thrown) is the one that solving the lines of each batch
\* one after the other in line order gives, whatever the order in which the workers
\* finish the tasks of a batch and whatever the maximum number of workers
C21_OutcomeIsDetermined ==
    (mode = "pool" /\ Done)
        => outcome = outcomeOfSolve

\* a solve with two workers has ended after the second task of a batch was
\* finished before the first, both results having been merged into the grid
C21_Witness ==
    /\ mode = "pool"
    /\ Done
    /\ outcome.kind = "grid"
    /\ history.outOfOrder
    /\ pool.maxWorkers >= 2

---------------------------------------------------------------------------
(* C22 *)

\* the task with the id `id`: waiting in the queue or posted to a worker
TaskOf(p, id) ==
    IF id \in DOMAIN p.activeTasks THEN p.activeTasks[id]
    ELSE LET k == CHOOSE i \in 1..Len(p.taskQueue) : p.taskQueue[i].taskId = id
         IN  p.taskQueue[k]

\* C22: in every iteration of the pool-based solve the row phase comes before the
\* column phase: tasks are submitted only by the call and by the step that resumes
\* solveNonogram after a whole batch has resolved; the column tasks are submitted
\* in the step in which every row task of the iteration has resolved, and the
\* snapshot carried by column task x holds, at row y, every cell that row result y
\* determined and the cell of the merged grid
C22_RowsBeforeColumns ==
    [][mode = "pool" /\ pool.constructed =>
         /\ (pc = "awaitRows" /\ pc' = "awaitRows") => pool'.nextTaskId = pool.nextTaskId
         /\ (pc = "awaitColumns" /\ pc' = "awaitColumns") => pool'.nextTaskId = pool.nextTaskId
         /\ (pc' = "awaitColumns" /\ pc # "awaitColumns") =>
              /\ pc = "awaitRows"
              /\ \A y \in 1..Len(batch) : pool'.promises[batch[y]].state = "resolved"
              /\ Len(batch') = Len(columnsHints)
              /\ \A x \in 1..Len(batch') :
                   LET task == TaskOf(pool', batch'[x])
                   IN  /\ batch'[x] >= pool.nextTaskId
                       /\ task.hints = columnsHints[x]
                       /\ task.segment = column(grid', x - 1)
                       /\ \A y \in 1..Len(batch) :
                            LET rowResult == pool'.promises[batch[y]].value
                            IN  rowResult[x] # Unknown => task.segment[y] = rowResult[x]]_vars

\* the column tasks of an iteration are awaited, the row pass of the iteration
\* determined a cell, and a column task still in the pool carries it
C22_Witness ==
    /\ mode = "pool"
    /\ pc = "awaitColumns"
    /\ Len(rowsHints) >= 2
    /\ \E x \in 1..Len(batch) :
         /\ pool.promises[batch[x]].state = "pending"
         /\ \E y \in 1..Len(rowsHints) : TaskOf(pool, batch[x]).segment[y] = Filled
    /\ \E x \in 1..Len(batch) : pool.promises[batch[x]].state = "resolved"

---------------------------------------------------------------------------
(* C23 *)

\* what an empty line resolves to: every cell Empty, or infeasible when a cell is Filled
EmptyLineOutcome(out) ==
    IF CountOf(lineSegment, Filled) = 0
    THEN ~out.threw /\ out.result = Fill(Len(lineSegment), Empty)
    ELSE out.threw

\* C23: a line whose hint sequence is empty or is [0] is resolved with every cell
\* Empty when it holds no Filled cell, and is reported infeasible when it holds one,
\* by the worker's line solver and by the synchronous solver's
C23_EmptyLines ==
    (mode = "line" /\ lineHints \in {<<>>, <<0>>}) =>
        /\ workerOut.ran => EmptyLineOutcome(workerOut)
        /\ syncOut.ran => EmptyLineOutcome(syncOut)

\* both solvers have resolved a line of Unknown and Empty cells with the hint [0]
C23_Witness ==
    /\ mode = "line"
    /\ lineHints = <<0>>
    /\ Len(lineSegment) >= 3
    /\ CountOf(lineSegment, Unknown) >= 2
    /\ CountOf(lineSegment, Filled) = 0
    /\ workerOut.ran /\ workerOut.result = Fill(Len(lineSegment), Empty)
    /\ syncOut.ran /\ syncOut.result = Fill(Len(lineSegment), Empty)

---------------------------------------------------------------------------
(* C24 *)

\* C24: for every hint sequence of positive integers and every tri-state line, the
\* synchronous solver's resolveSequence returns null exactly when the worker's
\* resolveSequence throws, and otherwise the two return the same line
C24_SolversAgree ==
    (mode = "line" /\ AllPositive(lineHints) /\ workerOut.ran /\ syncOut.ran) =>
        /\ syncOut.threw <=> workerOut.threw
        /\ ~workerOut.threw => syncOut.result = workerOut.result

\* both solvers have resolved a line with two blocks, a cell of which was determined
\* beforehand: they newly determine a cell and leave another Unknown
C24_Witness ==
    /\ mode = "line"
    /\ Len(lineHints) = 2 /\ AllPositive(lineHints)
    /\ workerOut.ran /\ syncOut.ran /\ ~workerOut.threw /\ ~syncOut.threw
    /\ CountOf(lineSegment, Unknown) < Len(lineSegment)
    /\ CountOf(workerOut.result, Unknown) > 0
    /\ CountOf(syncOut.result, Unknown) < CountOf(lineSegment, Unknown)

---------------------------------------------------------------------------
(* C25 *)

RECURSIVE neitherCells(_, _, _, _)
\* the for loop of resolveSequence from cell i on, with the cache as the loop
\* finds it: the cells for which both probes return false
neitherCells(hints, segment, i, cache) ==
    IF i >= Len(segment) THEN {}
    ELSE IF ~CellIs(segment, i, Unknown) THEN neitherCells(hints, segment, i + 1, cache)
    ELSE LET mustBeFilled == checkMustBe(hints, segment, i, Filled, cache)
             mustBeEmpty == checkMustBe(hints, segment, i, Empty, mustBeFilled.cache)
             here == IF ~mustBeFilled.value /\ ~mustBeEmpty.value THEN {i} ELSE {}
         IN  here \cup neitherCells(hints, segment, i + 1, mustBeEmpty.cache)

\* C25: when the feasibility check canPlaceHints(hints, line, 0) has returned true,
\* every Unknown cell of the line has a probe that returns true: resolveSequence
\* leaves no cell Unknown because both of its probes failed
C25_NeitherIsUnreachable ==
    [][(mode = "line" /\ ~workerOut.ran /\ workerOut'.ran /\ workerOut'.searched
          /\ ~workerOut'.threw) =>
          neitherCells(lineHints, lineSegment, 0,
                       canPlaceHints(lineHints, lineSegment, 0, EmptyCache).cache) = {}]_vars

\* the worker has probed a line that passed the feasibility check: it left a cell
\* Unknown (both probes true) and determined another (one probe false)
C25_Witness ==
    /\ mode = "line"
    /\ workerOut.ran /\ workerOut.searched /\ ~workerOut.threw
    /\ Len(lineHints) = 2
    /\ CountOf(workerOut.result, Unknown) > 0
    /\ CountOf(workerOut.result, Unknown) < CountOf(lineSegment, Unknown)
    /\ CountOf(lineSegment, Filled) > 0

---------------------------------------------------------------------------
(* C26: the search of canPlaceHints without its short-circuit *)

RECURSIVE canPlaceEveryStart(_, _, _)
\* the blocks `hints` can be placed from startIndex on, every start up to the latest
\* one that leaves room for the remaining hints being tried, and no Filled cell from
\* startIndex on being left outside the blocks
canPlaceEveryStart(hints, segment, startIndex) ==
    IF Len(hints) = 0
    THEN \A k \in startIndex..(Len(segment) - 1) : ~CellIs(segment, k, Filled)
    ELSE \E i \in startIndex..(Len(segment) - getMinSpaceNeeded(hints)) :
            /\ \A k \in startIndex..(i - 1) : ~CellIs(segment, k, Filled)
            /\ canPlaceBlock(segment, i, Head(hints))
            /\ canPlaceEveryStart(Tail(hints), segment, i + Head(hints) + 1)

\* C26: the short-circuit of canPlaceHints is sound: for every hints, line and start
\* index, canPlaceHints gives what the search that tries every start position gives
\* under the requirement that no Filled cell is left uncovered
C26_ShortCircuitIsSound ==
    (mode = "line" /\ workerOut.ran) =>
        \A startIndex \in 0..(Len(lineSegment) + 1) :
            canPlaceHints(lineHints, lineSegment, startIndex, EmptyCache).value
                <=> canPlaceEveryStart(lineHints, lineSegment, startIndex)

\* the worker has searched a line where the scan stopped at a Filled cell that the
\* block cannot cover, although the block fits at a later start within the loop's
\* range: the search failed
C26_Witness ==
    /\ mode = "line"
    /\ workerOut.ran /\ workerOut.searched /\ workerOut.threw
    /\ Len(lineHints) = 1
    /\ \E f, i \in 0..(Len(lineSegment) - getMinSpaceNeeded(lineHints)) :
         /\ f < i
         /\ CellIs(lineSegment, f, Filled)
         /\ canPlaceBlock(lineSegment, i, lineHints[1])
         /\ \A k \in (i + lineHints[1])..(Len(lineSegment) - 1) : ~CellIs(lineSegment, k, Filled)

---------------------------------------------------------------------------
(* C27 *)

\* the arguments canPlaceHints can be called with while resolveSequence handles the
\* line: the line or the line with one cell set by a probe; all the hints from start
\* index 0, or the hints left after the first j blocks from a start index that
\* leaves room for those blocks and their gaps
CallsOfLine(hints, segment) ==
    LET probes == {segment} \cup {SetAt(segment, i, v) : i \in 0..(Len(segment) - 1),
                                                           v \in {Empty, Filled}}
        starts(j) == IF j = 0 THEN {0}
                     ELSE (SumSeq(SubSeq(hints, 1, j)) + j)..(Len(segment) + 1)
    IN  UNION {[hints : {SubSeq(hints, j + 1, Len(hints))}, segment : probes,
                startIndex : starts(j)] : j \in 0..Len(hints)}

\* the cache keys of those calls
KeysOfLine(hints, segment) ==
    {getCacheKey(c.hints, c.segment, c.startIndex) : c \in CallsOfLine(hints, segment)}

\* C27 as stated: after resolveSequence has returned or thrown, the memoization
\* cache holds no entry
C27_CacheEmptyAfterInvocation ==
    (mode = "line" /\ workerOut.ran) => workerOut.cache = EmptyCache

\* C27, amended: the cache is discarded when the search of an invocation begins:
\* after resolveSequence has returned or thrown from its search, the cache holds
\* entries, all of them written for the line of that invocation and none for an
\* earlier line
C27_CacheHoldsOnlyThisLine ==
    [][(mode = "line" /\ ~workerOut.ran /\ workerOut'.ran /\ workerOut'.searched) =>
          /\ workerOut'.cache # EmptyCache
          /\ DOMAIN workerOut'.cache \subseteq KeysOfLine(lineHints, lineSegment)]_vars

\* a worker has searched a line of three cells or more: its cache holds entries,
\* none of them an entry that the earlier line of a used thread had left
C27_Witness ==
    /\ mode = "line"
    /\ workerOut.ran /\ workerOut.searched
    /\ workerOut.cache # EmptyCache
    /\ \E c \in PriorCaches :
         /\ c # EmptyCache
         /\ DOMAIN c \cap DOMAIN workerOut.cache = {}
    /\ Len(lineSegment) >= 3

---------------------------------------------------------------------------
(* C28: canPlaceHints without its cache *)

RECURSIVE canPlaceHintsUncached(_, _, _)
RECURSIVE scanStartsUncached(_, _, _, _)
\* the for loop of canPlaceHints, no cache being read or written
scanStartsUncached(hints, segment, i, maxStart) ==
    IF i > maxStart THEN FALSE
    ELSE IF /\ canPlaceBlock(segment, i, Head(hints))
            /\ canPlaceHintsUncached(Tail(hints), segment, i + Head(hints) + 1)
    THEN TRUE
    ELSE IF CellIs(segment, i, Filled) THEN FALSE
    ELSE scanStartsUncached(hints, segment, i + 1, maxStart)

\* the recursion of canPlaceHints, no cache being read or written
canPlaceHintsUncached(hints, segment, startIndex) ==
    IF Len(hints) = 0
    THEN ~(\E k \in 1..Len(segment) : k > startIndex /\ segment[k] = Filled)
    ELSE scanStartsUncached(hints, segment, startIndex, Len(segment) - getMinSpaceNeeded(hints))

\* C28: memoization is transparent: when a worker, whatever it handled before, has
\* handled a line, every value canPlaceHints has returned and stored for a call
\* (hints, line, startIndex) is the value of the recursion without a cache, and
\* calls with different arguments, those of probes that differ in one cell
\* included, have different cache keys
C28_MemoizationIsTransparent ==
    [][(mode = "line" /\ ~workerOut.ran /\ workerOut'.ran) =>
          LET calls == CallsOfLine(lineHints, lineSegment)
              keyOf == [c \in calls |-> getCacheKey(c.hints, c.segment, c.startIndex)]
              stored == DOMAIN workerOut'.cache
          IN  /\ \A c \in calls :
                    keyOf[c] \in stored =>
                        workerOut'.cache[keyOf[c]]
                            = canPlaceHintsUncached(c.hints, c.segment, c.startIndex)
              /\ Cardinality({keyOf[c] : c \in calls}) = Cardinality(calls)]_vars

\* the worker has probed a cell of a line with two blocks: the calls of the two
\* probes, which differ in that cell only, are stored under two keys with two values
C28_Witness ==
    /\ mode = "line"
    /\ workerOut.ran /\ workerOut.searched /\ ~workerOut.threw
    /\ Len(lineHints) = 2
    /\ \E i \in 0..(Len(lineSegment) - 1) :
         LET filledKey == getCacheKey(lineHints, SetAt(lineSegment, i, Filled), 0)
             emptyKey == getCacheKey(lineHints, SetAt(lineSegment, i, Empty), 0)
         IN  /\ CellIs(lineSegment, i, Unknown)
             /\ filledKey \in DOMAIN workerOut.cache
             /\ emptyKey \in DOMAIN workerOut.cache
             /\ workerOut.cache[filledKey] # workerOut.cache[emptyKey]

---------------------------------------------------------------------------
(* C29 *)

IdleWorkers(p) == {w \in 1..Len(p.workers) : ~p.workers[w].busy}

\* C29: the lifecycle of the workers of a pool, at every step: a worker is created
\* only in a step that posts a task, when every worker the pool held was busy and
\* they were fewer than the maximum; a worker whose task ended by a message or by an
\* error stays in the pool, idle or posted the next queued task; a task submitted
\* while a worker is idle goes to an idle worker and no worker is created; and
\* the pool loses workers in terminate() only
C29_WorkerLifecycle ==
    [][mode = "driver" =>
         /\ Len(pool'.workers) > Len(pool.workers) =>
               /\ IdleWorkers(pool) = {}
               /\ Len(pool.workers) < pool.maxWorkers
               /\ Len(pool'.posted) > Len(pool.posted)
               /\ IdleWorkers(pool') = {}
         /\ \A w \in 1..MaxWorkers :
               (PoolWorkerMessage(w) \/ PoolWorkerError(w)) =>
                  /\ Len(pool'.workers) = Len(pool.workers)
                  /\ IF pool.taskQueue = <<>>
                     THEN ~pool'.workers[w].busy
                     ELSE pool'.workers[w].currentTaskId = Head(pool.taskQueue).taskId
         /\ (PoolSubmit /\ IdleWorkers(pool) # {}) =>
               /\ Len(pool'.workers) = Len(pool.workers)
               /\ \E w \in IdleWorkers(pool) :
                     /\ pool'.workers[w].busy
                     /\ pool'.workers[w].currentTaskId = pool.nextTaskId
         /\ Len(pool'.workers) < Len(pool.workers) => PoolTerminate]_vars

\* a pool that may hold two workers has created one only: its first task ended by
\* an error, and the same worker was posted the second task
C29_Witness ==
    /\ mode = "driver"
    /\ pool.maxWorkers = 2
    /\ pool.terminateCalls = 0
    /\ pool.created = 1
    /\ Len(pool.workers) = 1
    /\ Len(pool.posted) = 2
    /\ pool.promises[1] = Rejected(SegmentNotPossible)
    /\ pool.workers[1].busy /\ pool.workers[1].currentTaskId = 2

---------------------------------------------------------------------------
(* C30 *)

\* C30: the pool is work-conserving: between the operations of the pool (submitTask,
\* the handling of a worker's message, the handling of a worker's error, terminate)
\* a task waits in the queue only if the pool holds its maximum number of workers
\* and every one of them is busy
C30_WorkConserving ==
    (mode = "driver" /\ pool.taskQueue # <<>>) =>
        /\ Len(pool.workers) = pool.maxWorkers
        /\ \A w \in 1..Len(pool.workers) : pool.workers[w].busy

\* a pool of two workers, both busy, with a task waiting, after the error of a
\* worker has been handled and the task that waited then was posted
C30_Witness ==
    /\ mode = "driver"
    /\ pool.maxWorkers = 2
    /\ Len(pool.workers) = 2
    /\ \A w \in 1..2 : pool.workers[w].busy
    /\ Len(pool.taskQueue) >= 1
    /\ Len(pool.posted) >= 3
    /\ pool.terminateCalls = 0
    /\ \E id \in DOMAIN pool.promises : pool.promises[id] = Rejected(SegmentNotPossible)

---------------------------------------------------------------------------
(* C31 *)

ActiveIds(p) == DOMAIN p.activeTasks
SettledIds(p) == {id \in DOMAIN p.promises : p.promises[id].state # "pending"}
BusyWorkers(p) == {w \in 1..Len(p.workers) : p.workers[w].busy}

\* each submitted task is queued, active or settled, and only one of the three; the
\* busy workers and the active tasks correspond one to one through currentTaskId,
\* and an idle worker has no task
PoolBookkeeping(p) ==
    /\ QueuedIds(p) \cup ActiveIds(p) \cup SettledIds(p) = DOMAIN p.promises
    /\ QueuedIds(p) \cap ActiveIds(p) = {}
    /\ QueuedIds(p) \cap SettledIds(p) = {}
    /\ ActiveIds(p) \cap SettledIds(p) = {}
    /\ Cardinality(QueuedIds(p)) = Len(p.taskQueue)
    /\ \A w \in BusyWorkers(p) : p.workers[w].currentTaskId \in ActiveIds(p)
    /\ \A id \in ActiveIds(p) :
          Cardinality({w \in BusyWorkers(p) : p.workers[w].currentTaskId = id}) = 1
    /\ \A w \in 1..Len(p.workers) : ~p.workers[w].busy => p.workers[w].currentTaskId = NoTask

\* C31: the bookkeeping of the pool, task identifiers being distinct: in every
\* reachable state each submitted task is in exactly one of the states queued,
\* active and settled, and the active tasks correspond one to one to the busy
\* workers through currentTaskId; and at every step a settled promise stays as it
\* is, and a promise is settled only by the message that carries its taskId, by the
\* error of the worker that holds the task, or by terminate()
C31_PoolBookkeeping ==
    /\ [](mode = "driver" => PoolBookkeeping(pool))
    /\ [][mode = "driver" =>
            \A id \in DOMAIN pool.promises :
               /\ id \in SettledIds(pool) => pool'.promises[id] = pool.promises[id]
               /\ (id \in PendingIds(pool) /\ id \in SettledIds(pool')) =>
                     \/ PoolTerminate
                     \/ \E w \in 1..Len(pool.workers) :
                           /\ PoolWorkerMessage(w)
                           /\ Head(pool.workers[w].events).taskId = id
                           /\ pool'.promises[id].state = "resolved"
                     \/ \E w \in 1..Len(pool.workers) :
                           /\ PoolWorkerError(w)
                           /\ pool.workers[w].currentTaskId = id
                           /\ pool'.promises[id].state = "rejected"]_vars

\* a pool of two workers with a task queued, two tasks active on the two busy
\* workers, and a task settled
C31_Witness ==
    /\ mode = "driver"
    /\ pool.terminateCalls = 0
    /\ Cardinality(QueuedIds(pool)) = 1
    /\ Cardinality(ActiveIds(pool)) = 2
    /\ Cardinality(BusyWorkers(pool)) = 2
    /\ Cardinality(SettledIds(pool)) = 1

---------------------------------------------------------------------------
(* C32 *)

\* C32: on every way the pool-based solveNonogram finishes after it has created
\* its pool (a grid returned, 'Puzzle is unsolvable' from a failed line or from a
\* stalled iteration, 'Maximum iterations exceeded'), terminate() has been called
\* on the pool and the pool holds no worker
C32_NoWorkerOutlivesSolve ==
    (mode = "pool" /\ Done /\ pool.constructed) =>
        /\ pool.terminateCalls >= 1
        /\ pool.workers = <<>>

---------------------------------------------------------------------------
(* C33: the full grids that satisfy the hints of a puzzle *)

\* every grid of Empty and Filled cells whose rows have the blocks of the row hints
\* and whose columns have the blocks of the column hints
Solutions(rows, cols) ==
    {g \in [1..Len(rows) -> [1..Len(cols) -> {Empty, Filled}]] :
        /\ \A y \in 1..Len(rows) : BlockLengths(g[y]) = rows[y]
        /\ \A x \in 1..Len(cols) : BlockLengths([y \in 1..Len(rows) |-> g[y][x]]) = cols[x]}

\* C33: deductions are sound: when a full grid satisfies all the row and column
\* hints of the puzzle, then in every state of a solve, synchronous or pool-based,
\* each determined cell of the grid has the value it has in every such grid, and no
\* line solve of the run has reported its line infeasible
C33_DeductionsAreSound ==
    (mode \in {"sync", "pool"} /\ Len(rowsHints) > 0 /\ Len(columnsHints) > 0
       /\ Solutions(rowsHints, columnsHints) # {}) =>
        /\ ~history.infeasible
        /\ \A y \in 1..Len(grid) : \A x \in 1..Len(grid[y]) :
              grid[y][x] # Unknown =>
                 \A g \in Solutions(rowsHints, columnsHints) : g[y][x] = grid[y][x]

\* a pool-based solve of a puzzle of two rows and two columns or more that a full
\* grid satisfies has merged a batch of columns and determined a cell
C33_Witness ==
    /\ mode = "pool"
    /\ Len(rowsHints) >= 2 /\ Len(columnsHints) >= 2
    /\ Solutions(rowsHints, columnsHints) # {}
    /\ Len(grid) > 0
    /\ \E y \in 1..Len(grid) : \E x \in 1..Len(grid[y]) : grid[y][x] # Unknown
    /\ Iterated

---------------------------------------------------------------------------
(* C34: the number of iterations of a solve and the tasks of an iteration *)

\* the number of cells of the grid that are Unknown
UnknownCells(g) ==
    Cardinality({c \in (1..Len(g)) \X (1..Len(columnsHints)) : g[c[1]][c[2]] = Unknown})

\* height * width + 1
IterationBound == Len(rowsHints) * Len(columnsHints) + 1

\* the tasks a pool has been given so far
Submitted(p) == p.nextTaskId - 1

\* the tasks of one whole iteration: height row tasks and width column tasks
TasksPerIteration == Len(rowsHints) + Len(columnsHints)

\* the step sets hasChanges (hasChanged) inside an iteration: the flag goes from
\* false to true, or the iteration that ends in the step is recorded as changed
SetsHasChanges ==
    /\ pc \notin {"none", "start"}
    /\ ~hasChanges
    /\ \/ hasChanges'
       \/ /\ Len(history'.iterations) = Len(history.iterations) + 1
          /\ history'.iterations[Len(history'.iterations)].changed

\* the iterations of a solve are bounded as C34 says
IterationsAreBounded ==
    /\ (mode = "sync" /\ pc \notin {"none", "start"}) => currentIteration <= IterationBound
    /\ (mode = "pool" /\ pc \notin {"none", "start"}) =>
          currentIteration <= Min(maxIterations, IterationBound)

\* while an iteration of the pool-based solve waits, the tasks of the iterations
\* before it, and its row tasks or its row and column tasks, have been submitted
TasksWhileAwaiting ==
    (mode = "pool" /\ pool.constructed) =>
        /\ pc = "awaitRows" =>
              /\ Submitted(pool) = (currentIteration - 1) * TasksPerIteration + Len(rowsHints)
              /\ Len(batch) = Len(rowsHints)
        /\ pc = "awaitColumns" =>
              /\ Submitted(pool) = currentIteration * TasksPerIteration
              /\ Len(batch) = Len(columnsHints)

\* the last iteration of a finished pool-based solve was left at the await of its
\* rows: every iteration before it has merged two batches, and it has merged none
LeftAtRows ==
    /\ currentIteration >= 1
    /\ history.merges = 2 * (currentIteration - 1)

\* C34 as it is stated: the synchronous solve runs at most height*width + 1
\* iterations and the pool-based solve at most min(maxIterations, height*width + 1);
\* hasChanges is set in an iteration only in a step in which a cell leaves Unknown;
\* and every iteration of the pool-based solve, the last one of a finished solve
\* included, has submitted exactly height row tasks and then width column tasks
C34_IterationsAndTasks ==
    /\ [](IterationsAreBounded /\ TasksWhileAwaiting)
    /\ []((mode = "pool" /\ pool.constructed /\ Done) =>
             Submitted(pool) = currentIteration * TasksPerIteration)
    /\ [][(mode \in {"sync", "pool"} /\ SetsHasChanges) =>
             UnknownCells(grid') < UnknownCells(grid)]_vars

\* C34 amended: the same bounds and the same condition on hasChanges; every
\* iteration of the pool-based solve submits exactly height row tasks, and then
\* exactly width column tasks unless the solve was ended at the await of the rows
\* by a rejected row task, in which case the iteration submits no column task
C34_IterationsAndTasksUnlessRejected ==
    /\ [](IterationsAreBounded /\ TasksWhileAwaiting)
    /\ []((mode = "pool" /\ pool.constructed /\ Done) =>
             /\ LeftAtRows =>
                   /\ outcome = Thrown("Puzzle is unsolvable")
                   /\ Submitted(pool) =
                         (currentIteration - 1) * TasksPerIteration + Len(rowsHints)
             /\ ~LeftAtRows => Submitted(pool) = currentIteration * TasksPerIteration)
    /\ [][(mode \in {"sync", "pool"} /\ SetsHasChanges) =>
             UnknownCells(grid') < UnknownCells(grid)]_vars

\* a pool-based solve has returned a grid after height*width + 1 iterations, the
\* last of them without a change, every one with its row and its column tasks
C34_Witness ==
    /\ mode = "pool"
    /\ Done
    /\ outcome.kind = "grid"
    /\ currentIteration = IterationBound
    /\ currentIteration < maxIterations
    /\ ~LastIteration.changed
    /\ Submitted(pool) = currentIteration * TasksPerIteration

====
